---- MODULE Spec2Model ----
(***************************************************************************)
(* A model of the arrt ray tracer: the bounding-volume hierarchy and the   *)
(* primitive intersection routines (objects/), the shadow walk and the     *)
(* depth-limited recursion of the tracer (render/tracer.rs) and the        *)
(* two-pass parallel render driver (render/mod.rs).                        *)
(*                                                                         *)
(* Numbers.  f32 values are modelled on the integer lattice: points,       *)
(* directions and ray parameters t are integers, ray directions have       *)
(* components in {-1, 0, 1} with exactly one non-zero component, so that   *)
(* 1/d, the slab parameters and the plane parameter are exact; the square  *)
(* root of Sphere::intersect is the integer square root.  Color channels   *)
(* are hundredths (0..100 for [0,1]).                                      *)
(***************************************************************************)
EXTENDS Integers, Sequences, FiniteSets, TLC

VARIABLES
    \* ---- scene geometry (objects/, scene/mod.rs, render/tracer.rs) ----
    config,      \* Scene.config.objects: the object list of the scene file
    objects,     \* RayTracer.objects: the list made by Scene::make_objects
    ray,         \* the ray handed to intersect / shadow_intensity
    range,       \* the Range handed to Bvh::intersect
    light,       \* [t, intensity]: parameter of the light on the shadow ray, intensity_at
    bvhRet,      \* Option<Surfel> returned by Bvh::intersect
    scanRet,     \* Option<Surfel> of the linear scan over the bounded objects
    shadowRet,   \* Option<f32> returned by shadow_intensity
    gpc,         \* position of the geometry scenario
    \* ---- the recursion of RayTracer::sample_ray (render/tracer.rs) ----
    stack,       \* the call stack: one frame per active call of sample_ray
    result,      \* what TraceContext::trace_ray has got for the camera ray
    deepest,     \* the greatest ray.depth sample_ray was called with
    \* ---- render_scene (render/mod.rs) ----
    width,       \* scene.width()
    height,      \* scene.height()
    aa,          \* anti_aliasing_depth
    scene,       \* the scene: what a ray through a view-plane coordinate sees
    nthreads,    \* rayon's current_num_threads()
    fb,          \* fb.data: the framebuffer of pass 1
    fb2,         \* fb2.data: the framebuffer of pass 2, the one returned
    work1,       \* pass 1: each chunk's closure: pending, running at j, or done
    work2,       \* pass 2: the same, for the chunks after the skipped one
    writes1,     \* per index of fb.data: the chunks whose closure wrote it
    writes2,     \* per index of fb2.data: the chunks whose closure wrote it
    phase,       \* where render_scene is
    maxRunning,  \* the most closures that were running at once
    \* ---- one routine called on its own (math/, objects/, render/) ----
    args,        \* the arguments of the call
    out,         \* what the call returned
    upc          \* "idle", "call" before the call, "done" after it

geoVars == <<config, objects, ray, range, light, bvhRet, scanRet, shadowRet, gpc>>
traceVars == <<stack, result, deepest>>
renderVars == <<width, height, aa, scene, nthreads, fb, fb2, work1, work2,
                writes1, writes2, phase, maxRunning>>
unitVars == <<args, out, upc>>
vars == <<geoVars, traceVars, renderVars, unitVars>>

----------------------------------------------------------------------------
(* Option<T>: None is the empty sequence, Some(x) the one-element sequence *)
None == <<>>
Some(x) == <<x>>
IsSome(o) == o # <<>>
Unwrap(o) == o[1]

Max2(a, b) == IF a >= b THEN a ELSE b
Min2(a, b) == IF a <= b THEN a ELSE b

\* f32::MAX and f32::MIN (= -f32::MAX) on the lattice
FMax == 1000
FMin == -FMax

----------------------------------------------------------------------------
(* math/vec3.rs, math/ray.rs, math/range.rs *)
Axes == 1..3
Vec3(x, y, z) == <<x, y, z>>
Fill(f) == <<f, f, f>>
VAdd(v, u) == [i \in Axes |-> v[i] + u[i]]
VSub(v, u) == [i \in Axes |-> v[i] - u[i]]
VScale(v, f) == [i \in Axes |-> v[i] * f]
Dot(v, u) == v[1] * u[1] + v[2] * u[2] + v[3] * u[3]

\* f32::sqrt, truncated to the lattice
Sqrt(n) == CHOOSE k \in 0..n : k * k <= n /\ (k + 1) * (k + 1) > n

\* length and normalize of math/vec3.rs, truncated to the lattice
Length(v) == Sqrt(Dot(v, v))
Normalize(v) == [i \in Axes |-> v[i] \div Length(v)]

Abs(x) == IF x < 0 THEN -x ELSE x

PointAt(r, t) == VAdd(r.origin, VScale(r.direction, t))

Range(lo, hi) == [min |-> lo, max |-> hi]
InRange(rg, f) == f < rg.max /\ f > rg.min

----------------------------------------------------------------------------
(* objects/material.rs: the material table and its name -> id map *)
Materials == <<
    [name |-> "matte",  kr |-> 0, kt |-> 0],
    [name |-> "glass",  kr |-> 0, kt |-> 1],
    [name |-> "mirror", kr |-> 1, kt |-> 0],
    [name |-> "crystal", kr |-> 1, kt |-> 1] >>

GetMaterialId(name) == CHOOSE i \in DOMAIN Materials : Materials[i].name = name
GetMaterial(id) == Materials[id]

Surfel(t, hit_point, material_id) ==
    [t |-> t, hit_point |-> hit_point, material_id |-> material_id]

----------------------------------------------------------------------------
(* objects/aabb.rs *)
Aabb(lo, hi) == [min |-> lo, max |-> hi]
AabbMaxMin == Aabb(Fill(FMax), Fill(FMin))

\* a plausible slip: the min corner of the first box kept
AabbMergeKeepMin(a, b) ==
    Aabb(a.min, [i \in Axes |-> Max2(a.max[i], b.max[i])])

AabbMerge(a, b) ==
    Aabb([i \in Axes |-> Min2(a.min[i], b.min[i])],
         [i \in Axes |-> Max2(a.max[i], b.max[i])])

AabbCenter(a) == [i \in Axes |-> (a.min[i] + a.max[i]) \div 2]

\* |f - 0| <= 2 * f32::EPSILON: on the lattice only 0 is that close to 0
NearlyZero(f) == f = 0

\* 1.0 / d, for the direction components -1 and 1 of the lattice
Recip(d) == d

\* the body of the loop over the three axes, from axis i on
RECURSIVE AabbSlabs(_, _, _, _, _)
AabbSlabs(box, r, i, t_near, t_far) ==
    IF i > 3
    THEN IF t_near < 0 THEN Some(t_far) ELSE Some(t_near)
    ELSE LET d == r.direction[i]
             o == r.origin[i]
         IN  IF NearlyZero(d)
             THEN IF o < box.min[i] \/ o > box.max[i]
                  THEN None
                  ELSE AabbSlabs(box, r, i + 1, t_near, t_far)
             ELSE LET f  == Recip(d)
                      a  == (box.min[i] - o) * f
                      b  == (box.max[i] - o) * f
                      t1 == IF a > b THEN b ELSE a
                      t2 == IF a > b THEN a ELSE b
                      tn == Max2(t1, t_near)
                      tf == Min2(t2, t_far)
                  IN  IF tn > tf THEN None
                      ELSE IF tf < 0 THEN None
                      ELSE AabbSlabs(box, r, i + 1, tn, tf)

AabbIntersect(box, r, rg) == AabbSlabs(box, r, 1, rg.min, rg.max)

----------------------------------------------------------------------------
(* objects/sphere.rs, objects/plane.rs *)
SphereNew(cfg, material_id) ==
    [kind |-> "sphere", center |-> cfg.center, radius |-> cfg.radius,
     material_id |-> material_id,
     bbox |-> Aabb(VSub(cfg.center, Fill(cfg.radius)), VAdd(cfg.center, Fill(cfg.radius)))]

PlaneNew(cfg, material_id) ==
    [kind |-> "plane", point |-> cfg.point, normal |-> cfg.normal,
     material_id |-> material_id]

\* a plausible slip: the larger root of the quadratic, whatever the smaller one is
SphereIntersectFarRoot(s, r, rg) ==
    LET a == Dot(r.direction, r.direction)
        v == VSub(r.origin, s.center)
        b == 2 * Dot(r.direction, v)
        c == Dot(v, v) - (s.radius * s.radius)
        discriminant == (b * b) - (4 * a * c)
    IN  IF discriminant < 0 THEN None
        ELSE LET t == (-b + Sqrt(discriminant)) \div (2 * a)
             IN  IF t >= 0 /\ InRange(rg, t)
                 THEN Some(Surfel(t, PointAt(r, t), s.material_id))
                 ELSE None

SphereIntersect(s, r, rg) ==
    LET a == Dot(r.direction, r.direction)
        v == VSub(r.origin, s.center)
        b == 2 * Dot(r.direction, v)
        c == Dot(v, v) - (s.radius * s.radius)
        discriminant == (b * b) - (4 * a * c)
    IN  IF discriminant < 0 THEN None
        ELSE LET f  == Sqrt(discriminant)
                 t0 == (-b - f) \div (2 * a)
                 t  == IF t0 < 0 THEN (-b + f) \div (2 * a) ELSE t0
             IN  IF t < 0 THEN None
                 ELSE IF InRange(rg, t)
                      THEN Some(Surfel(t, PointAt(r, t), s.material_id))
                      ELSE None

PlaneIntersect(p, r, rg) ==
    LET ndotrd == Dot(p.normal, r.direction)
    IN  IF ndotrd # 0
        THEN LET ndotro == Dot(p.normal, r.origin)
                 ndotp  == Dot(p.normal, p.point)
                 \* ndotrd is 1 or -1 on the lattice: x / ndotrd = x * ndotrd
                 t == -((ndotro - ndotp) * ndotrd)
             IN  IF InRange(rg, t)
                 THEN Some(Surfel(t, PointAt(r, t), p.material_id))
                 ELSE None
        ELSE None

----------------------------------------------------------------------------
(* objects/mesh.rs: Triangle::intersect.  The lattice of this part is in      *)
(* fifths: the vertex (1,0,0) of the spec's example is <<5, 0, 0>>, the       *)
(* origin (0.2,0.2,1) is <<1, 1, 5>> and t = 1 is 5.  beta and gamma are      *)
(* quotients of two determinants of at most a few hundred, so that            *)
(* beta < 1e-6 says beta <= 0.                                                *)

\* Mat3::new and determinant of math/mat3.rs: dat, row after row
Mat3(xx, xy, xz, yx, yy, yz, zx, zy, zz) == <<xx, xy, xz, yx, yy, yz, zx, zy, zz>>
Determinant(m) ==
      m[1] * (m[5] * m[9] - m[6] * m[8])
    - m[2] * (m[4] * m[9] - m[6] * m[7])
    + m[3] * (m[4] * m[8] - m[5] * m[7])

Sign(x) == IF x > 0 THEN 1 ELSE IF x < 0 THEN -1 ELSE 0

\* num * (1 / den) < 1e-6, for den # 0
BelowSpf(num, den) == num * Sign(den) <= 0

\* num * (1 / den) > 1, for den # 0
AboveOne(num, den) == num * Sign(den) > Abs(den)

\* a plausible slip: T with the right-hand side in its second column
TriangleTOfY(a, b, c, d, e, f, g, h, i, j, k, l) ==
    Mat3(a, d, c,
         e, h, g,
         i, l, k)

\* let T = Mat3::new(a, b, d, e, f, h, i, j, l)
TriangleT(a, b, c, d, e, f, g, h, i, j, k, l) ==
    Mat3(a, b, d,
         e, f, h,
         i, j, l)

\* Triangle::intersect(ray, range, vertices, normals).  When determinant(A) is
\* 0, 1.0 / determinant(A) is infinite and beta, gamma and t are infinite or
\* NaN: one of the four tests returns None, the last one because neither an
\* infinite t nor NaN is in range.
TriangleIntersect(tri, r, rg, vertices) ==
    LET v0 == vertices[tri.i]
        v1 == vertices[tri.j]
        v2 == vertices[tri.k]
        a == v0[1] - v1[1]
        b == v0[1] - v2[1]
        c == r.direction[1]
        d == v0[1] - r.origin[1]
        e == v0[2] - v1[2]
        f == v0[2] - v2[2]
        g == r.direction[2]
        h == v0[2] - r.origin[2]
        i == v0[3] - v1[3]
        j == v0[3] - v2[3]
        k == r.direction[3]
        l == v0[3] - r.origin[3]
        A == Mat3(a, b, c, e, f, g, i, j, k)
        B == Mat3(d, b, c, h, f, g, l, j, k)
        Y == Mat3(a, d, c, e, h, g, i, l, k)
        T == TriangleT(a, b, c, d, e, f, g, h, i, j, k, l)
        detA == Determinant(A)
    IN  IF detA = 0 THEN None
        ELSE IF BelowSpf(Determinant(B), detA) THEN None
        ELSE IF BelowSpf(Determinant(Y), detA) THEN None
        ELSE IF AboveOne(Determinant(B) + Determinant(Y), detA) THEN None
        ELSE LET t == Determinant(T) \div detA
             IN  IF ~InRange(rg, t) THEN None
                 ELSE Some(Surfel(t, PointAt(r, t), 0))

\* cross of math/vec3.rs
Cross(v, u) ==
    <<v[2] * u[3] - v[3] * u[2], v[3] * u[1] - v[1] * u[3], v[1] * u[2] - v[2] * u[1]>>

----------------------------------------------------------------------------
(* objects/mesh.rs: Mesh and Instance; objects/transform.rs; the Object trait *)

\* f32 NaN: 0.0 / 0.0.  Every comparison with NaN is false; as a lattice value
\* NaN lies below every number, so that f < NaN and NaN > f are false as they
\* are for f32, and Le and Lt say the rest
NaN == -(2 * FMax)
Le(a, b) == a # NaN /\ b # NaN /\ a <= b

\* Transform of objects/transform.rs with rotate = (0, 0, 0): the three
\* rotations are the identity, mat4() is translate * scale and inverse() is
\* iscale * itranslate
Transform(translate, scale) == [translate |-> translate, scale |-> scale]

\* &transform.mat4() * Vec4::from_vec3(p, 1.0)
TransformPoint(tr, p) == [i \in Axes |-> tr.scale[i] * p[i] + tr.translate[i]]

\* &transform.inverse() * Vec4::from_vec3(p, 1.0)
InversePoint(tr, p) == [i \in Axes |-> (p[i] - tr.translate[i]) \div tr.scale[i]]

\* normalize(&transform.inverse() * Vec4::from_vec3(d, 0.0)) for a direction
\* along an axis: d[i] / scale[i] on that axis, brought back to length 1
InverseDirection(tr, d) == [i \in Axes |-> Sign(d[i]) * Sign(tr.scale[i])]

\* Aabb::vertices and Aabb::transform
AabbVertices(box) ==
    {<<x, y, z>> : x \in {box.min[1], box.max[1]}, y \in {box.min[2], box.max[2]},
                   z \in {box.min[3], box.max[3]}}
AabbTransform(box, tr) ==
    LET vs == {TransformPoint(tr, v) : v \in AabbVertices(box)}
    IN  Aabb([i \in Axes |-> CHOOSE m \in {v[i] : v \in vs} : \A v \in vs : m <= v[i]],
             [i \in Axes |-> CHOOSE m \in {v[i] : v \in vs} : \A v \in vs : m >= v[i]])

\* Mesh::fromSMF: the box of the vertices
MeshBbox(vertices) ==
    Aabb([i \in Axes |-> CHOOSE m \in {vertices[n][i] : n \in DOMAIN vertices} :
                             \A n \in DOMAIN vertices : m <= vertices[n][i]],
         [i \in Axes |-> CHOOSE m \in {vertices[n][i] : n \in DOMAIN vertices} :
                             \A n \in DOMAIN vertices : m >= vertices[n][i]])
MeshNew(vertices, triangles) ==
    [vertices |-> vertices, triangles |-> triangles, bbox |-> MeshBbox(vertices)]

\* the loop of Mesh::intersect over the triangles, from triangle n on
RECURSIVE MeshLoop(_, _, _, _, _)
MeshLoop(mesh, n, r, t_range, surfel) ==
    IF n > Len(mesh.triangles) THEN surfel
    ELSE LET surf == TriangleIntersect(mesh.triangles[n], r, t_range, mesh.vertices)
         IN  IF IsSome(surf)
             THEN MeshLoop(mesh, n + 1, r, Range(t_range.min, Unwrap(surf).t), surf)
             ELSE MeshLoop(mesh, n + 1, r, t_range, surfel)

MeshIntersect(mesh, r, rg) == MeshLoop(mesh, 1, r, rg, None)

\* Instance::new
InstanceNew(model, material_id, transformations) ==
    [kind |-> "instance", model |-> model, material_id |-> material_id,
     bbox |-> AabbTransform(model.bbox, transformations),
     transform |-> transformations]

\* (hit_point - ray.origin).x() / ray.direction.x(): direction.x() is 1, -1 or
\* 0 on the lattice, and with 0 the numerator is 0 as well
InstanceT(hit_point, r) ==
    IF r.direction[1] = 0 THEN NaN
    ELSE (hit_point[1] - r.origin[1]) * r.direction[1]

\* Instance::intersect: the ray in model space with the range of world space
InstanceIntersect(inst, r, rg) ==
    LET o == InversePoint(inst.transform, r.origin)
        d == InverseDirection(inst.transform, r.direction)
        \* let r = Ray{origin: o, direction: normalize(d), depth: ray.depth}
        model_r == [origin |-> o, direction |-> d, depth |-> r.depth]
        surf == MeshIntersect(inst.model, model_r, rg)
    IN  IF IsSome(surf)
        THEN LET hit_point == TransformPoint(inst.transform, Unwrap(surf).hit_point)
             IN  Some(Surfel(InstanceT(hit_point, r), hit_point, inst.material_id))
        ELSE None
\* Object::bbox, Object::centroid, Object::intersect of the primitives
Bbox(o) == IF o.kind = "plane" THEN None ELSE Some(o.bbox)
Centroid(o) ==
    CASE o.kind = "sphere" -> o.center
      [] o.kind = "plane"  -> o.point
      [] OTHER             -> AabbCenter(o.bbox)

PrimIntersect(o, r, rg) ==
    CASE o.kind = "sphere"   -> SphereIntersect(o, r, rg)
      [] o.kind = "instance" -> InstanceIntersect(o, r, rg)
      [] OTHER               -> PlaneIntersect(o, r, rg)

----------------------------------------------------------------------------
(* objects/bvh.rs *)
RECURSIVE ComputeBboxFrom(_, _, _)
ComputeBboxFrom(objs, i, bbox) ==
    IF i > Len(objs) THEN bbox
    ELSE ComputeBboxFrom(objs, i + 1, AabbMerge(bbox, Unwrap(Bbox(objs[i]))))

ComputeBbox(objs) == ComputeBboxFrom(objs, 1, AabbMaxMin)

\* centroid_cmp is Less or Equal for every adjacent pair: the list is sorted on axis
IsSortedOn(s, axis) ==
    \A i \in 1..(Len(s) - 1) : Centroid(s[i])[axis + 1] <= Centroid(s[i + 1])[axis + 1]

\* a plausible slip: the list split as it came, never sorted
Unsorted(objs, axis) == {objs}

\* sort_unstable_by: every sorted arrangement of the list; the order of objects
\* that compare Equal is not specified
SortUnstable(objs, axis) ==
    LET n == Len(objs)
        perms == {p \in [1..n -> 1..n] : \A i, j \in 1..n : p[i] = p[j] => i = j}
    IN  {s \in {[i \in 1..n |-> objs[p[i]]] : p \in perms} : IsSortedOn(s, axis)}

BvhNode(left, right, objs, bbox) ==
    [kind |-> "bvh", left |-> left, right |-> right, objects |-> objs, bbox |-> bbox]

\* Bvh::new(objects, axis): the trees the build can produce
RECURSIVE BvhNew(_, _)
BvhNew(objs, axis) ==
    IF Len(objs) <= 1
    THEN {BvhNode(None, None, objs, ComputeBbox(objs))}
    ELSE LET next_axis == (axis + 1) % 3
             mid == Len(objs) \div 2
         IN  UNION {
                 {BvhNode(Some(l), Some(r), <<>>, AabbMerge(l.bbox, r.bbox)) :
                      l \in BvhNew(SubSeq(s, 1, mid), next_axis),
                      r \in BvhNew(SubSeq(s, mid + 1, Len(s)), next_axis)} :
                 s \in SortUnstable(objs, axis)}

\* the loop over the objects of a leaf, from object i on
RECURSIVE LeafLoop(_, _, _, _, _)
LeafLoop(objs, i, r, trange, ret) ==
    IF i > Len(objs) THEN ret
    ELSE LET hit == PrimIntersect(objs[i], r, trange)
         IN  IF IsSome(hit)
             THEN LeafLoop(objs, i + 1, r, Range(trange.min, Unwrap(hit).t), hit)
             ELSE LeafLoop(objs, i + 1, r, trange, ret)

\* whether Bvh::intersect goes on after testing the node's own box
BboxAdmits(node, r, rg) == IsSome(AabbIntersect(node.bbox, r, rg))

\* a plausible slip: the left child's hit wins whenever there is one
LeftFirst(maybe_l_surf, maybe_r_surf) ==
    IF IsSome(maybe_l_surf) THEN maybe_l_surf ELSE maybe_r_surf

\* the match on the two children's results: the nearer hit, ties to the left
NearerOf(maybe_l_surf, maybe_r_surf) ==
    CASE IsSome(maybe_l_surf) /\ IsSome(maybe_r_surf) ->
             IF Le(Unwrap(maybe_l_surf).t, Unwrap(maybe_r_surf).t)
             THEN maybe_l_surf ELSE maybe_r_surf
      [] IsSome(maybe_l_surf) /\ ~IsSome(maybe_r_surf) -> maybe_l_surf
      [] ~IsSome(maybe_l_surf) /\ IsSome(maybe_r_surf) -> maybe_r_surf
      [] OTHER -> None

RECURSIVE BvhIntersect(_, _, _)
BvhIntersect(node, r, rg) ==
    IF BboxAdmits(node, r, rg)
    THEN IF node.objects # <<>>
         THEN LeafLoop(node.objects, 1, r, rg, None)
         ELSE NearerOf(IF IsSome(node.left)
                       THEN BvhIntersect(Unwrap(node.left), r, rg) ELSE None,
                       IF IsSome(node.right)
                       THEN BvhIntersect(Unwrap(node.right), r, rg) ELSE None)
    ELSE None

\* Object::intersect by dynamic dispatch
ObjectIntersect(o, r, rg) ==
    IF o.kind = "bvh" THEN BvhIntersect(o, r, rg) ELSE PrimIntersect(o, r, rg)

----------------------------------------------------------------------------
(* scene/mod.rs: Scene::make_objects *)

\* the loop over config.objects: <<all_objs, bounded_objs>> after object i..
RECURSIVE MakeObjectsLoop(_, _, _, _)
MakeObjectsLoop(cfgs, i, all_objs, bounded_objs) ==
    IF i > Len(cfgs) THEN <<all_objs, bounded_objs>>
    ELSE LET obj == cfgs[i]
             id  == GetMaterialId(obj.material)
         IN  CASE obj.kind = "sphere" ->
                      MakeObjectsLoop(cfgs, i + 1, all_objs, Append(bounded_objs, SphereNew(obj, id)))
               [] obj.kind = "model" ->
                      \* obj.mesh is the Mesh that Mesh::fromSMF reads from the file
                      MakeObjectsLoop(cfgs, i + 1, all_objs,
                                      Append(bounded_objs, InstanceNew(obj.mesh, id, obj.transform)))
               [] OTHER ->
                      MakeObjectsLoop(cfgs, i + 1, Append(all_objs, PlaneNew(obj, id)), bounded_objs)

\* the object lists make_objects can return: the unbounded objects, then one Bvh
MakeObjectsOf(cfgs) ==
    LET split == MakeObjectsLoop(cfgs, 1, <<>>, <<>>)
    IN  {Append(split[1], bvh) : bvh \in BvhNew(split[2], 0)}

----------------------------------------------------------------------------
(* render/tracer.rs: trace_ray and shadow_intensity *)

\* Range.min of trace_ray (0.025) and of shadow_intensity (0.001): on the lattice
\* t > 0.025 and t > 0.001 both say t > 0
TraceRangeMin == 0
ShadowRangeMin == 0

\* the nearest-hit loop of trace_ray over a list of objects, from object i on
RECURSIVE TraceLoop(_, _, _, _, _)
TraceLoop(objs, i, r, rg, surfel) ==
    IF i > Len(objs) THEN surfel
    ELSE LET hit == ObjectIntersect(objs[i], r, rg)
         IN  IF IsSome(hit)
             THEN TraceLoop(objs, i + 1, r, Range(rg.min, Unwrap(hit).t), hit)
             ELSE TraceLoop(objs, i + 1, r, rg, surfel)

TraceRay(objs, r) == TraceLoop(objs, 1, r, Range(TraceRangeMin, FMax), None)

\* intensity *= 0.5: intensities are multiples of 1/IntensityOne
IntensityOne == 64
Half(x) == x \div 2

\* what a transmissive occluder at surf.t does to the range of the walk
AdvanceRange(rg, t) == Range(t, rg.max)

RECURSIVE ShadowLoop(_, _, _, _, _)
ShadowLoop(objs, i, r, rg, intensity) ==
    IF i > Len(objs) THEN intensity
    ELSE LET hit == ObjectIntersect(objs[i], r, rg)
         IN  IF IsSome(hit)
             THEN IF GetMaterial(Unwrap(hit).material_id).kt > 0
                  THEN ShadowLoop(objs, i + 1, r, AdvanceRange(rg, Unwrap(hit).t), Half(intensity))
                  ELSE 0
             ELSE ShadowLoop(objs, i + 1, r, rg, intensity)

ShadowIntensity(objs, r, light_intensity) ==
    ShadowLoop(objs, 1, r, Range(ShadowRangeMin, FMax), light_intensity)

----------------------------------------------------------------------------
(* The geometry scenarios: a scene is made, then a ray is intersected with   *)
(* its Bvh and with a linear scan, or walked by shadow_intensity.            *)

\* the longest object list of a scene
MaxObjects == 3

SphereConfigs == {
    [kind |-> "sphere", center |-> <<4, 0, 0>>,  radius |-> 1, material |-> "glass"],
    [kind |-> "sphere", center |-> <<8, 0, 0>>,  radius |-> 2, material |-> "matte"],
    [kind |-> "sphere", center |-> <<13, 0, 0>>, radius |-> 1, material |-> "glass"],
    [kind |-> "sphere", center |-> <<0, 5, 0>>,  radius |-> 2, material |-> "matte"],
    [kind |-> "sphere", center |-> <<8, 3, 0>>,  radius |-> 2, material |-> "glass"] }

PlaneConfigs == {
    [kind |-> "plane", point |-> <<6, 0, 0>>,  normal |-> <<1, 0, 0>>,  material |-> "glass"],
    [kind |-> "plane", point |-> <<16, 0, 0>>, normal |-> <<-1, 0, 0>>, material |-> "matte"] }

Rays == {
    [origin |-> <<0, 0, 0>>,  direction |-> <<1, 0, 0>>,  depth |-> 0],
    [origin |-> <<0, 0, 0>>,  direction |-> <<0, 1, 0>>,  depth |-> 0],
    [origin |-> <<20, 0, 0>>, direction |-> <<-1, 0, 0>>, depth |-> 0],
    [origin |-> <<0, 1, 0>>,  direction |-> <<1, 0, 0>>,  depth |-> 0],
    [origin |-> <<8, 0, 0>>,  direction |-> <<1, 0, 0>>,  depth |-> 0],
    [origin |-> <<4, 0, -6>>, direction |-> <<0, 0, 1>>,  depth |-> 0] }

Ranges == { Range(TraceRangeMin, FMax), Range(TraceRangeMin, 7), Range(5, FMax), Range(-3, FMax) }

\* the parameter of the light on the shadow ray
LightTs == {10, 20}

\* no routine is being called on its own
UnitIdle == args = <<>> /\ out = <<>> /\ upc = "idle"

\* no camera ray is being traced
TraceIdle == stack = <<>> /\ result = "idle" /\ deepest = 0

\* render_scene is not running
RenderIdle ==
    /\ width = 0 /\ height = 0 /\ aa = 0 /\ scene = "none" /\ nthreads = 0
    /\ fb = <<>> /\ fb2 = <<>> /\ work1 = <<>> /\ work2 = <<>>
    /\ writes1 = <<>> /\ writes2 = <<>> /\ phase = "idle" /\ maxRunning = 0

SeqsUpTo(S, n) == UNION {[1..k -> S] : k \in 0..n}

NoLight == [t |-> 0, intensity |-> 0]

InitGeo(cfgs, rgs, lights) ==
    /\ config \in cfgs
    /\ ray \in Rays
    /\ range \in rgs
    /\ light \in lights
    /\ objects = <<>>
    /\ bvhRet = None
    /\ scanRet = None
    /\ shadowRet = None
    /\ gpc = "config"
    /\ TraceIdle
    /\ RenderIdle
    /\ UnitIdle

\* RayTracer::new: scene.make_objects()
MakeObjects ==
    /\ gpc = "config"
    /\ objects' \in MakeObjectsOf(config)
    /\ gpc' = "made"
    /\ UNCHANGED <<config, ray, range, light, bvhRet, scanRet, shadowRet, traceVars, renderVars, unitVars>>

\* the Bvh of the scene: the last object of the list
SceneBvh == objects[Len(objects)]

\* the bounded objects of the scene, in the order of the scene file
Bounded == MakeObjectsLoop(config, 1, <<>>, <<>>)[2]

\* Bvh::intersect(ray, range) on the scene's Bvh
Intersect ==
    /\ gpc = "made"
    /\ bvhRet' = BvhIntersect(SceneBvh, ray, range)
    /\ gpc' = "hit"
    /\ UNCHANGED <<config, objects, ray, range, light, scanRet, shadowRet, traceVars, renderVars, unitVars>>

\* the brute-force scan: the nearest-hit loop over the bounded objects themselves
LinearScan ==
    /\ gpc = "hit"
    /\ scanRet' = TraceLoop(Bounded, 1, ray, range, None)
    /\ gpc' = "done"
    /\ UNCHANGED <<config, objects, ray, range, light, bvhRet, shadowRet, traceVars, renderVars, unitVars>>

\* shadow_intensity(ray, light_intensity) for the shadow ray of a surface point
Shadow ==
    /\ gpc = "made"
    /\ shadowRet' = Some(ShadowIntensity(objects, ray, light.intensity))
    /\ gpc' = "done"
    /\ UNCHANGED <<config, objects, ray, range, light, bvhRet, scanRet, traceVars, renderVars, unitVars>>

InitBvh == InitGeo(SeqsUpTo(SphereConfigs, MaxObjects), Ranges, {NoLight})
NextBvh == MakeObjects \/ Intersect \/ LinearScan
SpecBvh == InitBvh /\ [][NextBvh]_vars

InitShadow ==
    InitGeo(SeqsUpTo(SphereConfigs \cup PlaneConfigs, MaxObjects),
            {Range(ShadowRangeMin, FMax)},
            {[t |-> t, intensity |-> IntensityOne] : t \in LightTs})
NextShadow == MakeObjects \/ Shadow
SpecShadow == InitShadow /\ [][NextShadow]_vars

----------------------------------------------------------------------------
(* C1: for every list of bounded objects, ray and range, Bvh::new(objects, 0) *)
(* .intersect(ray, range) is None exactly when no object of the list reports *)
(* a hit for that range, and otherwise has the t of the nearest such hit,    *)
(* which is also what the linear scan returns.                               *)
HitTs == {Unwrap(PrimIntersect(Bounded[i], ray, range)).t :
              i \in {j \in 1..Len(Bounded) : IsSome(PrimIntersect(Bounded[j], ray, range))}}

MinOf(S) == CHOOSE m \in S : \A x \in S : m <= x

----------------------------------------------------------------------------
\* the primitives of the scene, unbounded ones first, and those among them that
\* the shadow ray meets between the surface point and the light
Prims == LET split == MakeObjectsLoop(config, 1, <<>>, <<>>) IN split[1] \o split[2]

Occluders ==
    {i \in 1..Len(Prims) : IsSome(PrimIntersect(Prims[i], ray, Range(ShadowRangeMin, light.t)))}

OpaqueOccluders == {i \in Occluders : GetMaterial(Prims[i].material_id).kt = 0}
TransmissiveOccluders == {i \in Occluders : GetMaterial(Prims[i].material_id).kt > 0}

RECURSIVE HalfTimes(_, _)
HalfTimes(x, k) == IF k = 0 THEN x ELSE HalfTimes(Half(x), k - 1)

(* C9: shadow_intensity returns 0 whenever at least one opaque object meets  *)
(* the shadow ray between the surface point and the light, whatever          *)
(* transmissive objects lie on the ray and however the objects are stored.   *)
ShadowOpaqueIsZero ==
    (gpc = "done" /\ IsSome(shadowRet) /\ OpaqueOccluders # {}) => Unwrap(shadowRet) = 0

(* C10: with exactly k transmissive occluders and no opaque one on the       *)
(* shadow ray, shadow_intensity returns light_intensity * 0.5^k.             *)
ShadowHalvesPerTransmissive ==
    (gpc = "done" /\ IsSome(shadowRet) /\ OpaqueOccluders = {}) =>
        Unwrap(shadowRet) = HalfTimes(light.intensity, Cardinality(TransmissiveOccluders))

----------------------------------------------------------------------------
(* render/tracer.rs: the recursion of sample_ray and shade.  What a ray hits *)
(* and whether refract finds a direction depend on the scene's geometry:     *)
(* every outcome is allowed at every call, which covers every scene, the     *)
(* mirror sphere in a box (every secondary ray hits) included.               *)

\* let max_depth = 5_u32
MaxDepth == 5

\* frames the stack may hold: more than sample_ray ever nests
MaxStack == 8

Frame(depth) == [depth |-> depth, pc |-> "trace_ray", surfel |-> None]

Top == stack[Len(stack)]
SetTop(f) == [stack EXCEPT ![Len(stack)] = f]
Pop == SubSeq(stack, 1, Len(stack) - 1)

\* a plausible slip: the test is dropped
NeverExceeded(depth) == FALSE

\* if ray.depth > max_depth { return (ColorRGB::black(), false); }
DepthExceeded(depth) == depth > MaxDepth

\* the depth given to a reflected, transmitted or internally reflected ray
ChildDepth(curr_depth) == curr_depth + 1

\* no geometry scenario is running
GeoIdle ==
    /\ config = <<>> /\ objects = <<>> /\ ray = None /\ range = None /\ light = NoLight
    /\ bvhRet = None /\ scanRet = None /\ shadowRet = None /\ gpc = "idle"

InitTrace ==
    /\ stack = <<>>
    /\ result = "pending"
    /\ deepest = 0
    /\ GeoIdle
    /\ RenderIdle
    /\ UnitIdle

\* TraceContext::trace_ray: sample_ray is called for a camera ray (depth 0)
CameraRay ==
    /\ result = "pending"
    /\ stack = <<>>
    /\ stack' = <<Frame(0)>>
    /\ result' = "tracing"
    /\ deepest' = 0
    /\ UNCHANGED <<geoVars, renderVars, unitVars>>

\* let surfel = self.trace_ray(ray): the scene is intersected
TraceScene ==
    /\ stack # <<>>
    /\ Top.pc = "trace_ray"
    /\ \E surf \in {None} \cup {Some(id) : id \in DOMAIN Materials} :
           stack' = SetTop([Top EXCEPT !.pc = "depth_check", !.surfel = surf])
    /\ UNCHANGED <<result, deepest, geoVars, renderVars, unitVars>>

\* a call of sample_ray returns to its caller, or to TraceContext::trace_ray
Return ==
    /\ stack' = Pop
    /\ result' = IF Len(stack) = 1 THEN "color" ELSE result
    /\ UNCHANGED <<deepest, geoVars, renderVars, unitVars>>

\* ray.depth > max_depth: black is returned
ReturnBlack ==
    /\ stack # <<>>
    /\ Top.pc = "depth_check"
    /\ DepthExceeded(Top.depth)
    /\ Return

\* None => (self.scene.bgcolor(), false)
ReturnBackground ==
    /\ stack # <<>>
    /\ Top.pc = "depth_check"
    /\ ~DepthExceeded(Top.depth)
    /\ ~IsSome(Top.surfel)
    /\ Return

\* Some(surf) => self.shade(...): the loop over the lights, with its shadow rays
ShadeLights ==
    /\ stack # <<>>
    /\ Top.pc = "depth_check"
    /\ ~DepthExceeded(Top.depth)
    /\ IsSome(Top.surfel)
    /\ stack' = SetTop([Top EXCEPT !.pc = "reflections"])
    /\ UNCHANGED <<result, deepest, geoVars, renderVars, unitVars>>

\* self.sample_ray(&ray) from shade: a new frame, the caller goes on at pc next
Call(next) ==
    /\ Len(stack) < MaxStack
    /\ stack' = Append(SetTop([Top EXCEPT !.pc = next]), Frame(ChildDepth(Top.depth)))
    /\ deepest' = Max2(deepest, ChildDepth(Top.depth))
    /\ UNCHANGED <<result, geoVars, renderVars, unitVars>>

\* if material.kr > 0.0: the reflected ray is sampled
Reflect ==
    /\ stack # <<>>
    /\ Top.pc = "reflections"
    /\ GetMaterial(Unwrap(Top.surfel)).kr > 0
    /\ Call("refractions")

NoReflect ==
    /\ stack # <<>>
    /\ Top.pc = "reflections"
    /\ ~(GetMaterial(Unwrap(Top.surfel)).kr > 0)
    /\ stack' = SetTop([Top EXCEPT !.pc = "refractions"])
    /\ UNCHANGED <<result, deepest, geoVars, renderVars, unitVars>>

\* if material.kt > 0.0 and refract(...) is Some(t): the transmitted ray is sampled
Refract ==
    /\ stack # <<>>
    /\ Top.pc = "refractions"
    /\ GetMaterial(Unwrap(Top.surfel)).kt > 0
    /\ Call("ambient")

\* refract(...) is None: an internally reflected ray is sampled instead
InternalReflect ==
    /\ stack # <<>>
    /\ Top.pc = "refractions"
    /\ GetMaterial(Unwrap(Top.surfel)).kt > 0
    /\ Call("ambient")

NoRefract ==
    /\ stack # <<>>
    /\ Top.pc = "refractions"
    /\ ~(GetMaterial(Unwrap(Top.surfel)).kt > 0)
    /\ stack' = SetTop([Top EXCEPT !.pc = "ambient"])
    /\ UNCHANGED <<result, deepest, geoVars, renderVars, unitVars>>

\* ambient lighting, clamp: shade and sample_ray return the color
ReturnShaded ==
    /\ stack # <<>>
    /\ Top.pc = "ambient"
    /\ Return

NextTrace ==
    \/ CameraRay \/ TraceScene \/ ReturnBlack \/ ReturnBackground \/ ShadeLights
    \/ Reflect \/ NoReflect \/ Refract \/ InternalReflect \/ NoRefract \/ ReturnShaded

SpecTrace == InitTrace /\ [][NextTrace]_vars

\* the worker that runs sample_ray is not stopped: a call that can take a step does
FairSpecTrace == SpecTrace /\ WF_vars(NextTrace)

(* C3: every call of sample_ray terminates: the recursion started by a camera *)
(* ray of depth 0 eventually returns a color, whatever the rays hit.          *)
SampleRayTerminates == <>(result = "color")

\* a camera ray has returned after its recursion went as deep as it can, through
\* surfaces that reflect and transmit
DeepRecursionReturned == result = "color" /\ deepest > MaxDepth

(* C4: recursive reflection never exceeds max_depth calls: sample_ray is      *)
(* never invoked, and the scene never intersected, for a ray of depth > 5.    *)
NoCallBeyondMaxDepth ==
    \A i \in 1..Len(stack) : stack[i].depth <= MaxDepth

----------------------------------------------------------------------------
(* render/color.rs: a ColorRGB is <<r, g, b>>, channels in hundredths *)
Black == <<0, 0, 0>>
CAdd(a, b) == [i \in 1..3 |-> a[i] + b[i]]
CSub(a, b) == [i \in 1..3 |-> a[i] - b[i]]
CDiv(a, f) == [i \in 1..3 |-> a[i] \div f]

(* The tracer behind TraceContext::sample_point / sample_coord: RayTracer is  *)
(* shared by reference and never written, so the color of the camera ray      *)
(* through a view-plane coordinate is a function of the scene and the         *)
(* coordinate.  Coordinates are in quarters of a pixel.                       *)
Scenes == {"flat", "edge", "ramp", "sky"}

\* clamp and ColorRGB::clamp of render/color.rs
Clamp(val, lo, hi) == IF val < lo THEN lo ELSE IF val > hi THEN hi ELSE val
ColorClamp(c, lo, hi) == [i \in 1..3 |-> Clamp(c[i], lo, hi)]

\* scene.bgcolor(): the bgcolor of the scene file, as deserialized; the file of
\* "sky" says [2.0, 0.5, 0.0]
BgColor(sc) == IF sc = "sky" THEN <<200, 50, 0>> ELSE Black

\* the color sample_ray returns for a ray of depth `depth` that trace_ray found
\* `surfel` for, shade summing up to `sum` before its final clamp
SampleRayColor(sc, surfel, depth, sum) ==
    IF DepthExceeded(depth) THEN Black
    ELSE IF IsSome(surfel) THEN ColorClamp(sum, 0, 100)
    ELSE BgColor(sc)

\* "sky" is a scene without objects: trace_ray finds nothing for any camera ray
SampleCoord(sc, coord) ==
    CASE sc = "flat" -> <<50, 50, 50>>
      [] sc = "edge" -> IF coord[1] + coord[2] < 7 THEN <<100, 60, 20>> ELSE Black
      [] sc = "sky"  -> SampleRayColor(sc, None, 0, Black)
      [] sc = "slope" -> <<(coord[1] + coord[2]) % 101, 30, 30>>
      [] OTHER       -> <<(coord[1] * 3) % 101, (coord[2] * 2) % 101, 10>>

SamplePoint(sc, j, k) == SampleCoord(sc, <<4 * j, 4 * k>>)

----------------------------------------------------------------------------
(* render/framebuffer.rs: data is a function on 0..(width * height - 1) *)
FramebufferNew(w, h) == [idx \in 0..(w * h - 1) |-> Black]

\* get_color: None when one of its assertions fails
GetColor(data, w, h, x, y) ==
    IF x < w /\ y < h /\ (y * w) + x \in DOMAIN data
    THEN Some(data[(y * w) + x])
    ELSE None

----------------------------------------------------------------------------
(* render/pixel.rs *)
Tolerance == 5

StashCells == (0..4) \X (0..4)
EmptyStash == [cell \in StashCells |-> None]

\* a Pixel being sampled: its stash and the rays cast for it so far
\* (ctxt.result.ray_count), with the cell and coordinate of every sample_coord
\* and the bottom_left and depth of every call of subdivide, in order
PixelState(stash, rays, casts, calls) ==
    [stash |-> stash, rays |-> rays, casts |-> casts, calls |-> calls]

\* a plausible slip: the sample is taken whether the cell is filled or not
GetOrInsertAlways(px, cell, coord, sc) ==
    PixelState([px.stash EXCEPT ![cell] = Some(SampleCoord(sc, coord))], px.rays + 1,
               Append(px.casts, [cell |-> cell, coord |-> coord]), px.calls)

\* stash[r][c].get_or_insert_with(|| tracer.sample_coord(coord))
GetOrInsert(px, cell, coord, sc) ==
    IF IsSome(px.stash[cell])
    THEN px
    ELSE PixelState([px.stash EXCEPT ![cell] = Some(SampleCoord(sc, coord))], px.rays + 1,
                    Append(px.casts, [cell |-> cell, coord |-> coord]), px.calls)

AverageColor(samples) ==
    CDiv(CAdd(CAdd(samples[1], samples[2]), CAdd(samples[3], samples[4])), 4)

ColorsDiffer(a, b) ==
    LET diff == CSub(a, b)
    IN  Abs(diff[1]) > Tolerance \/ Abs(diff[2]) > Tolerance \/ Abs(diff[3]) > Tolerance

SamplesDiffer(samples) ==
    \/ ColorsDiffer(samples[1], samples[2])
    \/ ColorsDiffer(samples[1], samples[4])
    \/ ColorsDiffer(samples[3], samples[4])
    \/ ColorsDiffer(samples[3], samples[2])

\* the value of v handed on to F: the statements of subdivide run in order
Then(v, F(_)) == CHOOSE r \in {F(x) : x \in {v}} : TRUE

\* Pixel::subdivide: [color, px], px the pixel's state after the call
RECURSIVE Subdivide(_, _, _, _, _, _)
Subdivide(px, coord, bottom_left, depth, min_depth, sc) ==
    LET off    == depth
        adjust == depth
        cellA  == bottom_left
        cellB  == <<bottom_left[1], bottom_left[2] + off>>
        cellE  == <<bottom_left[1] - off, bottom_left[2] + off>>
        cellD  == <<bottom_left[1] - off, bottom_left[2]>>
        px0    == [px EXCEPT !.calls = Append(@, [bottom_left |-> bottom_left, depth |-> depth])]
    IN  Then(GetOrInsert(px0, cellA, coord, sc), LAMBDA px1 :
        Then(GetOrInsert(px1, cellB, <<coord[1] + adjust, coord[2]>>, sc), LAMBDA px2 :
        Then(GetOrInsert(px2, cellE, <<coord[1] + adjust, coord[2] - adjust>>, sc), LAMBDA px3 :
        Then(GetOrInsert(px3, cellD, <<coord[1], coord[2] - adjust>>, sc), LAMBDA px4 :
        LET samples == <<Unwrap(px4.stash[cellA]), Unwrap(px4.stash[cellB]),
                         Unwrap(px4.stash[cellE]), Unwrap(px4.stash[cellD])>>
        IN  IF ~SamplesDiffer(samples) \/ depth = min_depth
            THEN [color |-> AverageColor(samples), px |-> px4]
            ELSE LET d    == depth \div 2
                     off2 == d
                     adj2 == depth
                 IN  Then(Subdivide(px4, coord, bottom_left, d, min_depth, sc), LAMBDA a :
                     Then(Subdivide(a.px, <<coord[1] + adj2, coord[2]>>,
                                    <<bottom_left[1], bottom_left[2] + off2>>,
                                    d, min_depth, sc), LAMBDA b :
                     Then(Subdivide(b.px, <<coord[1] + adj2, coord[2] - adj2>>,
                                    <<bottom_left[1] - off2, bottom_left[2] + off2>>,
                                    d, min_depth, sc), LAMBDA e :
                     Then(Subdivide(e.px, <<coord[1], coord[2] - adj2>>,
                                    <<bottom_left[1] - off2, bottom_left[2]>>,
                                    d, min_depth, sc), LAMBDA dd :
                     [color |-> AverageColor(<<a.color, b.color, e.color, dd.color>>),
                      px |-> dd.px]))))))))

\* a plausible slip: no minimum depth for the settings above 1
MinDepthZero(max_depth) == IF max_depth = 0 THEN 4 ELSE IF max_depth = 1 THEN 2 ELSE 0

\* match max_depth { 0 => 4, 1 => 2, _ => 1 }: the min_depth handed to subdivide
MinDepthOf(max_depth) == IF max_depth = 0 THEN 4 ELSE IF max_depth = 1 THEN 2 ELSE 1

\* Pixel::new(j, k).sample(tracer, framebuf, max_depth): None when a get_color
\* assertion fails, else Some([color, px])
PixelSample(j, k, data, w, h, max_depth, sc) ==
    LET c40 == GetColor(data, w, h, j, k)
        c44 == GetColor(data, w, h, j + 1, k)
        c04 == GetColor(data, w, h, j + 1, k - 1)
        c00 == GetColor(data, w, h, j, k - 1)
    IN  IF IsSome(c40) /\ IsSome(c44) /\ IsSome(c04) /\ IsSome(c00)
        THEN Some(Subdivide(
                 PixelState([EmptyStash EXCEPT ![<<4, 0>>] = c40, ![<<4, 4>>] = c44,
                                               ![<<0, 4>>] = c04, ![<<0, 0>>] = c00],
                            0, <<>>, <<>>),
                 <<4 * j, 4 * k>>, <<4, 0>>, 4, MinDepthOf(max_depth), sc))
        ELSE None

----------------------------------------------------------------------------
(* render/mod.rs: render_scene.  rayon runs the closure of each chunk on one  *)
(* of its nthreads workers, in any order; a closure writes its chunk pixel by *)
(* pixel.                                                                     *)

\* the largest width and height of an image, and the most worker threads
MaxDim == 3
MaxThreads == 2

AaDepths == {0, 1, 2}

Pending == [st |-> "pending", j |-> 0]
Running(j) == [st |-> "running", j |-> j]
Done == [st |-> "done", j |-> 0]

NumPixels == width * height

\* par_chunks_mut(fb.height): the chunk size, and chunk k's place in data
ChunkSize == height
NumChunks == (NumPixels + ChunkSize - 1) \div ChunkSize

\* a plausible slip: chunks taken for rows of width pixels
ChunkStartByWidth(k) == k * width

ChunkStart(k) == k * ChunkSize
ChunkLen(k) == Min2(ChunkSize, NumPixels - ChunkStart(k))
ChunkIndices(k) == ChunkStart(k)..(ChunkStart(k) + ChunkLen(k) - 1)

RunningNow(w1, w2) ==
    Cardinality({k \in DOMAIN w1 : w1[k].st = "running"})
        + Cardinality({c \in DOMAIN w2 : w2[c].st = "running"})

InitRender ==
    /\ width \in 1..MaxDim
    /\ height \in 1..MaxDim
    /\ aa \in AaDepths
    /\ scene \in Scenes
    /\ nthreads \in 1..MaxThreads
    /\ fb = FramebufferNew(width, height)
    /\ fb2 = <<>>
    /\ work1 = [k \in 0..(NumChunks - 1) |-> Pending]
    /\ work2 = <<>>
    /\ writes1 = [idx \in 0..(NumPixels - 1) |-> <<>>]
    /\ writes2 = <<>>
    /\ phase = "pass1"
    /\ maxRunning = 0
    /\ GeoIdle
    /\ TraceIdle
    /\ UnitIdle

\* pass 1: a free worker starts the closure of chunk k
Take1(k) ==
    /\ phase = "pass1"
    /\ work1[k].st = "pending"
    /\ RunningNow(work1, work2) < nthreads
    /\ work1' = [work1 EXCEPT ![k] = Running(0)]
    /\ maxRunning' = Max2(maxRunning, RunningNow(work1', work2))
    /\ UNCHANGED <<width, height, aa, scene, nthreads, fb, fb2, work2, writes1, writes2, phase,
                   geoVars, traceVars, unitVars>>

\* pass 1: *c = ctxt.sample_point(j, k) for the next pixel of the chunk
Write1(k) ==
    /\ work1[k].st = "running"
    /\ work1[k].j < ChunkLen(k)
    /\ LET j == work1[k].j
           idx == ChunkStart(k) + j
       IN  /\ fb' = [fb EXCEPT ![idx] = SamplePoint(scene, j, k)]
           /\ writes1' = [writes1 EXCEPT ![idx] = Append(@, k)]
           /\ work1' = [work1 EXCEPT ![k] = Running(j + 1)]
    /\ UNCHANGED <<width, height, aa, scene, nthreads, fb2, work2, writes2, phase, maxRunning,
                   geoVars, traceVars, unitVars>>

\* pass 1: the closure of chunk k returns ctxt.result
Finish1(k) ==
    /\ work1[k].st = "running"
    /\ work1[k].j = ChunkLen(k)
    /\ work1' = [work1 EXCEPT ![k] = Done]
    /\ UNCHANGED <<width, height, aa, scene, nthreads, fb, fb2, work2, writes1, writes2, phase,
                   maxRunning, geoVars, traceVars, unitVars>>

\* a plausible slip: pass 2 starts once every chunk was handed out
Pass1HandedOut == \A k \in DOMAIN work1 : work1[k].st # "pending"

\* reduce(...) of pass 1 has returned: every closure has
Pass1Complete == \A k \in DOMAIN work1 : work1[k].st = "done"

\* let mut fb2 = Framebuffer::new(fb.width, fb.height); ... .skip(1)
BeginPass2 ==
    /\ phase = "pass1"
    /\ Pass1Complete
    /\ fb2' = FramebufferNew(width, height)
    /\ work2' = [c \in 1..(NumChunks - 1) |-> Pending]
    /\ writes2' = [idx \in 0..(NumPixels - 1) |-> <<>>]
    /\ phase' = "pass2"
    /\ UNCHANGED <<width, height, aa, scene, nthreads, fb, work1, writes1, maxRunning,
                   geoVars, traceVars, unitVars>>

\* pass 2: a free worker starts the closure of chunk c (k = c - 1 after skip(1))
Take2(c) ==
    /\ phase = "pass2"
    /\ work2[c].st = "pending"
    /\ RunningNow(work1, work2) < nthreads
    /\ work2' = [work2 EXCEPT ![c] = Running(0)]
    /\ maxRunning' = Max2(maxRunning, RunningNow(work1, work2'))
    /\ UNCHANGED <<width, height, aa, scene, nthreads, fb, fb2, work1, writes1, writes2, phase,
                   geoVars, traceVars, unitVars>>

\* a plausible slip: one framebuffer, antialiased in place
Pass2SourceInPlace == fb2

\* the framebuffer Pixel::sample reads: &fb
Pass2Source == fb

\* whether the loop of a pass-2 closure goes on at j: the row has a pixel j and
\* j is not fb.width - 1
RowGoesOn(c, j) == j < ChunkLen(c) /\ j # width - 1

\* pass 2: Pixel::new(j, k + 1).sample(...) returns and *c = color
Sample2(c) ==
    /\ phase = "pass2"
    /\ work2[c].st = "running"
    /\ RowGoesOn(c, work2[c].j)
    /\ LET j == work2[c].j
           idx == ChunkStart(c) + j
           sampled == PixelSample(j, c, Pass2Source, width, height, aa, scene)
       IN  /\ IsSome(sampled)
           /\ fb2' = [fb2 EXCEPT ![idx] = Unwrap(sampled).color]
           /\ writes2' = [writes2 EXCEPT ![idx] = Append(@, c)]
           /\ work2' = [work2 EXCEPT ![c] = Running(j + 1)]
    /\ UNCHANGED <<width, height, aa, scene, nthreads, fb, work1, writes1, phase, maxRunning,
                   geoVars, traceVars, unitVars>>

\* pass 2: an assertion of Framebuffer::get_color fails in Pixel::sample: the
\* closure panics and render_scene unwinds
Panic2(c) ==
    /\ phase = "pass2"
    /\ work2[c].st = "running"
    /\ RowGoesOn(c, work2[c].j)
    /\ ~IsSome(PixelSample(work2[c].j, c, Pass2Source, width, height, aa, scene))
    /\ phase' = "panicked"
    /\ UNCHANGED <<width, height, aa, scene, nthreads, fb, fb2, work1, work2, writes1, writes2,
                   maxRunning, geoVars, traceVars, unitVars>>

\* pass 2: the closure of chunk c ends its loop and returns ctxt.result
Finish2(c) ==
    /\ phase = "pass2"
    /\ work2[c].st = "running"
    /\ ~RowGoesOn(c, work2[c].j)
    /\ work2' = [work2 EXCEPT ![c] = Done]
    /\ UNCHANGED <<width, height, aa, scene, nthreads, fb, fb2, work1, writes1, writes2, phase,
                   maxRunning, geoVars, traceVars, unitVars>>

\* reduce(...) of pass 2 has returned; render_scene returns fb2
ReturnFb2 ==
    /\ phase = "pass2"
    /\ \A c \in DOMAIN work2 : work2[c].st = "done"
    /\ phase' = "returned"
    /\ UNCHANGED <<width, height, aa, scene, nthreads, fb, fb2, work1, work2, writes1, writes2,
                   maxRunning, geoVars, traceVars, unitVars>>

NextRender ==
    \/ \E k \in DOMAIN work1 : Take1(k)
    \/ \E k \in DOMAIN work1 : Write1(k)
    \/ \E k \in DOMAIN work1 : Finish1(k)
    \/ BeginPass2
    \/ \E c \in DOMAIN work2 : Take2(c)
    \/ \E c \in DOMAIN work2 : Sample2(c)
    \/ \E c \in DOMAIN work2 : Panic2(c)
    \/ \E c \in DOMAIN work2 : Finish2(c)
    \/ ReturnFb2

SpecRender == InitRender /\ [][NextRender]_vars

----------------------------------------------------------------------------
(* What one worker computes, chunk after chunk: the framebuffers of a         *)
(* sequential run of the two passes of render_scene.                          *)
RefFb1 ==
    [idx \in 0..(NumPixels - 1) |-> SamplePoint(scene, idx % ChunkSize, idx \div ChunkSize)]

RefSample(idx) ==
    PixelSample(idx % ChunkSize, idx \div ChunkSize, RefFb1, width, height, aa, scene)

RefFb2 ==
    [idx \in 0..(NumPixels - 1) |->
        IF idx \div ChunkSize >= 1 /\ idx % ChunkSize # width - 1 /\ IsSome(RefSample(idx))
        THEN Unwrap(RefSample(idx)).color
        ELSE Black]

\* C2: for a fixed scene, size and sampling depth, the framebuffer that
\* render_scene returns (and the pass-1 framebuffer behind it) is the one a
\* sequential run computes, whatever the number of workers and whatever the
\* interleaving of the chunks in either pass
RenderIsDeterministic ==
    /\ phase \in {"pass2", "returned"} => fb = RefFb1
    /\ phase = "returned" => fb2 = RefFb2

\* C2: a render returned after two workers ran side by side, with an
\* antialiased pixel that is not the fill color
ParallelRenderReturned ==
    /\ phase = "returned"
    /\ maxRunning >= 2
    /\ \E idx \in DOMAIN fb2 : Len(writes2[idx]) = 1 /\ fb2[idx] # Black

\* C5: no worker of render_scene trips an assertion of Framebuffer::get_color,
\* for every width >= 1 and height >= 1
RenderNeverPanics == phase # "panicked"

\* C6: a pass-2 closure has started only if every pass-1 closure has returned
\* and every index of the pass-1 framebuffer was written, and no step that
\* changes the state of pass 2 changes the pass-1 framebuffer
Pass2AfterPass1 ==
    /\ [](  (\E c \in DOMAIN work2 : work2[c].st # "pending")
         => /\ \A k \in DOMAIN work1 : work1[k].st = "done"
            /\ \A idx \in DOMAIN writes1 : Len(writes1[idx]) = 1)
    /\ [][(work2' # work2 \/ fb2' # fb2 \/ writes2' # writes2) => fb' = fb]_vars

\* C6: pass 2 has sampled a pixel, after pass 1 ran on two workers
Pass2Sampled ==
    /\ phase = "pass2"
    /\ maxRunning >= 2
    /\ \E idx \in DOMAIN writes2 : Len(writes2[idx]) = 1

\* C7: the chunks of pass 1 are pairwise disjoint and cover the framebuffer;
\* an index is written by the closure of its own chunk only, never twice, and
\* exactly once by the time pass 1 is complete
Pass1ChunksPartition ==
    /\ \A k1, k2 \in DOMAIN work1 : k1 # k2 => ChunkIndices(k1) \cap ChunkIndices(k2) = {}
    /\ UNION {ChunkIndices(k) : k \in DOMAIN work1} = 0..(NumPixels - 1)
    /\ \A idx \in DOMAIN writes1 :
        /\ Len(writes1[idx]) <= 1
        /\ \A i \in 1..Len(writes1[idx]) : idx \in ChunkIndices(writes1[idx][i])
    /\ Pass1Complete => \A idx \in DOMAIN writes1 : Len(writes1[idx]) = 1

\* C7: pass 1 of an image that is not square is complete, after two workers
\* ran side by side
Pass1DoneInParallel ==
    /\ Pass1Complete
    /\ width # height
    /\ maxRunning >= 2
    /\ \A idx \in DOMAIN writes1 : Len(writes1[idx]) = 1

\* C8: when render_scene returns, pass 2 has written every pixel of fb2 exactly
\* once, first row and last column included
Pass2WritesEveryPixel ==
    phase = "returned" => \A idx \in 0..(NumPixels - 1) : Len(writes2[idx]) = 1

----------------------------------------------------------------------------
(* render_scene from its first line: Framebuffer::new, then RayTracer::new,   *)
(* whose scene.make_objects() looks every object's material up, then the two  *)
(* passes.                                                                    *)

\* name_to_id[name] of get_material_id: indexing a HashMap panics on a key it
\* does not hold
KnownMaterial(name) == \E i \in DOMAIN Materials : Materials[i].name = name

\* make_objects looks up the material of every object of the scene file
MakeObjectsPanics(cfgs) == \E i \in 1..Len(cfgs) : ~KnownMaterial(cfgs[i].material)

\* a plausible slip: a tracer that makes its objects when the first ray needs them
RayTracerLazy(cfgs) == {<<>>}

\* RayTracer::new(scene): the object lists it can hold; none when make_objects
\* panics
RayTracerNew(cfgs) == IF MakeObjectsPanics(cfgs) THEN {} ELSE MakeObjectsOf(cfgs)

\* the scene files of the runs: spheres and planes, one of a material that the
\* material table does not have
RunObjects == {
    [kind |-> "sphere", center |-> <<4, 0, 0>>, radius |-> 1, material |-> "glass"],
    [kind |-> "sphere", center |-> <<8, 0, 0>>, radius |-> 2, material |-> "chrome"],
    [kind |-> "plane", point |-> <<16, 0, 0>>, normal |-> <<-1, 0, 0>>, material |-> "matte"] }

RunConfigs == SeqsUpTo(RunObjects, 2)

InitRun ==
    /\ config \in RunConfigs
    /\ objects = <<>>
    /\ ray = [origin |-> <<0, 0, 0>>, direction |-> <<1, 0, 0>>, depth |-> 0]
    /\ range = Range(TraceRangeMin, FMax)
    /\ light = NoLight
    /\ bvhRet = None /\ scanRet = None /\ shadowRet = None
    /\ gpc = "config"
    /\ width \in 1..MaxDim
    /\ height \in 1..MaxDim
    /\ aa \in {0, 2}
    /\ scene \in {"edge"}
    /\ nthreads \in 1..MaxThreads
    /\ fb = <<>> /\ fb2 = <<>>
    /\ work1 = <<>> /\ work2 = <<>>
    /\ writes1 = <<>> /\ writes2 = <<>>
    /\ phase = "setup"
    /\ maxRunning = 0
    /\ TraceIdle
    /\ UnitIdle

\* let mut fb = Framebuffer::new(scene.width() as usize, scene.height() as usize)
NewFramebuffer ==
    /\ phase = "setup"
    /\ fb' = FramebufferNew(width, height)
    /\ phase' = "tracer"
    /\ UNCHANGED <<width, height, aa, scene, nthreads, fb2, work1, work2, writes1, writes2,
                   maxRunning, geoVars, traceVars, unitVars>>

\* let tracer = RayTracer::new(scene) returns; pass 1 hands its chunks out
NewTracer ==
    /\ phase = "tracer"
    /\ objects' \in RayTracerNew(config)
    /\ gpc' = "made"
    /\ work1' = [k \in 0..(NumChunks - 1) |-> Pending]
    /\ writes1' = [idx \in 0..(NumPixels - 1) |-> <<>>]
    /\ phase' = "pass1"
    /\ UNCHANGED <<config, ray, range, light, bvhRet, scanRet, shadowRet,
                   width, height, aa, scene, nthreads, fb, fb2, work2, writes2, maxRunning,
                   traceVars, unitVars>>

\* RayTracer::new(scene) panics in get_material_id: render_scene unwinds
NewTracerPanics ==
    /\ phase = "tracer"
    /\ RayTracerNew(config) = {}
    /\ phase' = "panicked"
    /\ UNCHANGED <<width, height, aa, scene, nthreads, fb, fb2, work1, work2, writes1, writes2,
                   maxRunning, geoVars, traceVars, unitVars>>

NextRun == NewFramebuffer \/ NewTracer \/ NewTracerPanics \/ NextRender
SpecRun == InitRun /\ [][NextRun]_vars

\* C11: when an object of the scene names a material the table does not have,
\* render_scene gets no further than RayTracer::new: no chunk is handed out, no
\* camera ray is traced, no pixel is written and no framebuffer is returned
UnknownMaterialAborts ==
    MakeObjectsPanics(config) =>
        /\ phase \in {"setup", "tracer", "panicked"}
        /\ work1 = <<>> /\ writes1 = <<>>
        /\ fb2 = <<>>
        /\ \A idx \in DOMAIN fb : fb[idx] = Black

\* C11: the run of a scene with a known and an unknown material has panicked
\* in RayTracer::new, the framebuffer of pass 1 allocated and untouched
AbortedInSetup ==
    /\ phase = "panicked"
    /\ MakeObjectsPanics(config)
    /\ \E i \in 1..Len(config) : KnownMaterial(config[i].material)
    /\ fb = FramebufferNew(width, height)
    /\ work1 = <<>>

----------------------------------------------------------------------------
\* C12: every channel of every pixel of the framebuffer render_scene returns
\* lies in [0, 1]
ReturnedChannelsInUnitRange ==
    phase = "returned" =>
        \A idx \in DOMAIN fb2 : \A ch \in 1..3 : fb2[idx][ch] >= 0 /\ fb2[idx][ch] <= 100

----------------------------------------------------------------------------
(* Pixel::sample called on its own: a pixel of the pass-1 framebuffer of a    *)
(* scene, sampled at each setting of the sampling depth.                      *)

\* the largest width and height of the framebuffer a pixel is sampled from
PixelDim == 4

\* the settings of anti_aliasing_depth (a u8) tried: 0, 1, 2, one above and the
\* largest
Settings == (0..3) \cup {255}

\* the scenes a pixel is sampled in: those rendered, and one whose color
\* changes along a diagonal of the image
PixelScenes == Scenes \cup {"slope"}

\* fb.data after pass 1 of a w x h image of scene sc
Pass1Data(sc, w, h) == [idx \in 0..(w * h - 1) |-> SamplePoint(sc, idx % h, idx \div h)]

PixelArgs ==
    {[sc |-> sc, w |-> w, h |-> h, j |-> j, k |-> k] :
        sc \in PixelScenes, w \in 2..PixelDim, h \in 2..PixelDim, j \in 0..(PixelDim - 2),
        k \in 1..(PixelDim - 1)}

InitPixel ==
    /\ args \in {a \in PixelArgs : a.j + 1 < a.w /\ a.k < a.h}
    /\ out = <<>>
    /\ upc = "call"
    /\ GeoIdle
    /\ TraceIdle
    /\ RenderIdle

\* Pixel::new(j, k).sample(tracer, &fb, setting), for each setting
CallPixelSample ==
    /\ upc = "call"
    /\ out' = [s \in Settings |->
                  Unwrap(PixelSample(args.j, args.k, Pass1Data(args.sc, args.w, args.h),
                                     args.w, args.h, s, args.sc))]
    /\ upc' = "done"
    /\ UNCHANGED <<args, geoVars, traceVars, renderVars>>

SpecPixel == InitPixel /\ [][CallPixelSample]_vars

\* the levels of subdivision a sampled pixel went through, read off its stash:
\* level 1 fills cells of row or column 2, level 2 cells of an odd row or column
LevelsOf(px) ==
    IF \E cell \in StashCells : IsSome(px.stash[cell]) /\ (cell[1] % 2 = 1 \/ cell[2] % 2 = 1)
    THEN 2
    ELSE IF \E cell \in StashCells : IsSome(px.stash[cell]) /\ (cell[1] = 2 \/ cell[2] = 2)
         THEN 1
         ELSE 0

\* C13: setting 0 subdivides a pixel through at least as many levels as
\* setting 1, setting 1 as setting 2, and setting 2 as any setting above
FinestAtSettingZero ==
    upc = "done" =>
        \A s, u \in Settings : s <= u => LevelsOf(out[s].px) >= LevelsOf(out[u].px)

----------------------------------------------------------------------------
(* Sphere::intersect called on its own.                                       *)

SphereNormalAt(s, point) == Normalize(VSub(point, s.center))

\* the Surfel of Sphere::intersect with its normal: self.normal_at(hit_point)
SphereSurfel(s, r, rg) ==
    LET hit == SphereIntersect(s, r, rg)
    IN  IF IsSome(hit)
        THEN Some([t |-> Unwrap(hit).t, hit_point |-> Unwrap(hit).hit_point,
                   normal |-> SphereNormalAt(s, Unwrap(hit).hit_point),
                   material_id |-> Unwrap(hit).material_id])
        ELSE None

\* the six directions of the lattice
Directions == {<<1, 0, 0>>, <<-1, 0, 0>>, <<0, 1, 0>>, <<0, -1, 0>>, <<0, 0, 1>>, <<0, 0, -1>>}

\* the coordinates of ray origins
OriginCoords == {-3, 0, 1, 2, 5}

UnitSpheres == {
    SphereNew([center |-> <<0, 0, 0>>, radius |-> 1], 1),
    SphereNew([center |-> <<0, 0, 0>>, radius |-> 2], 2),
    SphereNew([center |-> <<2, -1, 3>>, radius |-> 2], 3) }

UnitRanges == { Range(TraceRangeMin, FMax), Range(TraceRangeMin, 4), Range(4, FMax) }

\* the discriminant of the quadratic of sphere s and ray r
Discriminant(s, r) ==
    LET v == VSub(r.origin, s.center)
        b == 2 * Dot(r.direction, v)
    IN  (b * b) - (4 * Dot(r.direction, r.direction) * (Dot(v, v) - (s.radius * s.radius)))

\* the square root of the discriminant is on the lattice: the ray misses the
\* sphere, touches it or goes through its axis
ExactRoots(s, r) == Discriminant(s, r) < 0 \/ Sqrt(Discriminant(s, r)) ^ 2 = Discriminant(s, r)

SphereArgs ==
    {[sphere |-> s, ray |-> [origin |-> <<x, y, z>>, direction |-> d, depth |-> 0], range |-> rg] :
        s \in UnitSpheres, x \in OriginCoords, y \in OriginCoords, z \in OriginCoords,
        d \in Directions, rg \in UnitRanges}

InitSphere ==
    /\ args \in {a \in SphereArgs : ExactRoots(a.sphere, a.ray)}
    /\ out = <<>>
    /\ upc = "call"
    /\ GeoIdle
    /\ TraceIdle
    /\ RenderIdle

\* sphere.intersect(&ray, range)
CallSphereIntersect ==
    /\ upc = "call"
    /\ out' = SphereSurfel(args.sphere, args.ray, args.range)
    /\ upc' = "done"
    /\ UNCHANGED <<args, geoVars, traceVars, renderVars>>

SpecSphere == InitSphere /\ [][CallSphereIntersect]_vars

\* the parameters t at which the ray of the call is on the sphere
SphereRoots ==
    {t \in (-20)..20 :
        LET d == VSub(PointAt(args.ray, t), args.sphere.center)
        IN  Dot(d, d) = args.sphere.radius * args.sphere.radius}

\* the root the rule picks: the smaller one when it is >= 0, else the larger
\* one when it is >= 0, else none
PickedRoots ==
    IF SphereRoots = {} THEN {}
    ELSE LET lo == MinOf(SphereRoots)
             hi == CHOOSE m \in SphereRoots : \A x \in SphereRoots : m >= x
         IN  IF lo >= 0 THEN {lo} ELSE IF hi >= 0 THEN {hi} ELSE {}

\* the call of the example: center (0,0,0), radius 1, origin (0,0,5), direction (0,0,-1)
SphereExample ==
    /\ args.sphere.center = <<0, 0, 0>> /\ args.sphere.radius = 1
    /\ args.ray.origin = <<0, 0, 5>> /\ args.ray.direction = <<0, 0, -1>>
    /\ args.range = Range(TraceRangeMin, FMax)

\* C14: Sphere::intersect returns a Surfel exactly when the picked root is
\* strictly inside range, with t the picked root, hit point origin + t x
\* direction and the unit normal (hit - center) / radius; the example call
\* returns t = 4, hit point (0,0,1), normal (0,0,1)
SpherePicksNearestRoot ==
    upc = "done" =>
        /\ IsSome(out) <=> \E t \in PickedRoots : InRange(args.range, t)
        /\ IsSome(out) =>
            /\ Unwrap(out).t \in PickedRoots
            /\ Unwrap(out).hit_point = VAdd(args.ray.origin, VScale(args.ray.direction, Unwrap(out).t))
            /\ VScale(Unwrap(out).normal, args.sphere.radius)
                   = VSub(Unwrap(out).hit_point, args.sphere.center)
            /\ Unwrap(out).material_id = args.sphere.material_id
        /\ SphereExample =>
            /\ IsSome(out)
            /\ Unwrap(out).t = 4
            /\ Unwrap(out).hit_point = <<0, 0, 1>>
            /\ Unwrap(out).normal = <<0, 0, 1>>

\* C14: a ray that starts inside the sphere got the larger root, the smaller
\* one being negative
SphereHitFromInside ==
    /\ upc = "done"
    /\ IsSome(out)
    /\ Cardinality(SphereRoots) = 2
    /\ MinOf(SphereRoots) < 0
    /\ Unwrap(out).t > 0

----------------------------------------------------------------------------
(* Aabb::intersect called on its own.                                         *)
UnitBoxes == {
    Aabb(<<-1, -1, -1>>, <<1, 1, 1>>),
    Aabb(<<0, 0, 0>>, <<2, 3, 1>>),
    Aabb(<<1, -3, -3>>, <<2, 0, 5>>) }

AabbArgs ==
    {[box |-> bx, ray |-> [origin |-> <<x, y, z>>, direction |-> d, depth |-> 0], range |-> rg] :
        bx \in UnitBoxes, x \in OriginCoords, y \in OriginCoords, z \in OriginCoords,
        d \in Directions, rg \in UnitRanges \cup {Range(-3, FMax)}}

InitAabb ==
    /\ args \in AabbArgs
    /\ out = <<>>
    /\ upc = "call"
    /\ GeoIdle
    /\ TraceIdle
    /\ RenderIdle

\* bbox.intersect(&ray, range)
CallAabbIntersect ==
    /\ upc = "call"
    /\ out' = AabbIntersect(args.box, args.ray, args.range)
    /\ upc' = "done"
    /\ UNCHANGED <<args, geoVars, traceVars, renderVars>>

SpecAabb == InitAabb /\ [][CallAabbIntersect]_vars

\* the reference: the parameters at which the ray of the call is inside the box
InsideBox(box, p) == \A i \in Axes : box.min[i] <= p[i] /\ p[i] <= box.max[i]
InsideTs == {t \in (-20)..20 : InsideBox(args.box, PointAt(args.ray, t))}
EntryT == MinOf(InsideTs)
ExitT == CHOOSE m \in InsideTs : \A t \in InsideTs : m >= t

\* C15: Aabb::intersect returns None exactly when no t >= 0 of the range puts
\* the ray inside the box, and otherwise the parameter at which the ray enters
\* the box, or at which it leaves the box when its origin is inside
AabbAgreesWithSlabTest ==
    upc = "done" =>
        /\ out = None <=>
              ~\E t \in InsideTs : t >= 0 /\ args.range.min <= t /\ t <= args.range.max
        /\ IsSome(out) =>
              Unwrap(out) = IF InsideBox(args.box, args.ray.origin) THEN ExitT ELSE EntryT

----------------------------------------------------------------------------
(* Aabb::merge called on three boxes, in both orders and groupings, and with  *)
(* Aabb::maxmin().                                                            *)
MergeBoxes == {
    Aabb(<<-1, -1, -1>>, <<1, 1, 1>>),
    Aabb(<<0, 0, 0>>, <<2, 3, 1>>),
    Aabb(<<1, -3, -3>>, <<2, 0, 5>>),
    Aabb(<<4, 4, 4>>, <<4, 4, 4>>),
    Aabb(<<-5, 2, 0>>, <<-2, 2, 7>>),
    Aabb(<<0, 0, 0>>, <<1, 1, 1>>),
    Aabb(Fill(FMin), Fill(FMax)) }

InitMerge ==
    /\ args \in [a : MergeBoxes, b : MergeBoxes, c : MergeBoxes]
    /\ out = <<>>
    /\ upc = "call"
    /\ GeoIdle
    /\ TraceIdle
    /\ RenderIdle

CallMerge ==
    /\ upc = "call"
    /\ out' = [ab   |-> AabbMerge(args.a, args.b),
               ba   |-> AabbMerge(args.b, args.a),
               ab_c |-> AabbMerge(AabbMerge(args.a, args.b), args.c),
               a_bc |-> AabbMerge(args.a, AabbMerge(args.b, args.c)),
               a_e  |-> AabbMerge(args.a, AabbMaxMin),
               e_a  |-> AabbMerge(AabbMaxMin, args.a)]
    /\ upc' = "done"
    /\ UNCHANGED <<args, geoVars, traceVars, renderVars>>

SpecMerge == InitMerge /\ [][CallMerge]_vars

\* box x contains box y
Contains(x, y) == \A i \in Axes : x.min[i] <= y.min[i] /\ y.max[i] <= x.max[i]

\* C16: merge is commutative and associative, maxmin() is its identity on both
\* sides, and merge(A, B) contains A and B and is contained in every box that
\* contains both
MergeIsCommutativeMonoid ==
    upc = "done" =>
        /\ out.ab = out.ba
        /\ out.ab_c = out.a_bc
        /\ out.a_e = args.a /\ out.e_a = args.a
        /\ Contains(out.ab, args.a) /\ Contains(out.ab, args.b)
        /\ \A x \in MergeBoxes : Contains(x, args.a) /\ Contains(x, args.b) => Contains(x, out.ab)
        /\ \A i \in Axes : /\ out.ab.min[i] \in {args.a.min[i], args.b.min[i]}
                           /\ out.ab.max[i] \in {args.a.max[i], args.b.max[i]}

\* C16: three boxes were merged, no one of them containing another, so that
\* each merge is a box that is none of its arguments
MergedThreeApart ==
    /\ upc = "done"
    /\ out.ab # args.a /\ out.ab # args.b
    /\ out.ab_c # out.ab /\ out.ab_c # args.c
    /\ out.a_bc # args.a

----------------------------------------------------------------------------
(* Triangle::intersect called on its own.                                    *)

\* the vertex lists of the triangles tried: the example's, a tilted one, one
\* wound the other way, one in a plane x = 2
TriangleVertices == {
    << <<0, 0, 0>>, <<5, 0, 0>>, <<0, 5, 0>> >>,
    << <<0, 0, 0>>, <<5, 0, 5>>, <<0, 5, 0>> >>,
    << <<0, 0, 1>>, <<0, 5, 1>>, <<5, 0, 1>> >>,
    << <<2, -1, -1>>, <<2, 5, 0>>, <<2, 0, 5>> >> }

TriangleCoords == {-1, 0, 1, 2, 5, 6}

TriangleArgs ==
    {[tri |-> [i |-> 1, j |-> 2, k |-> 3], vertices |-> vs,
      ray |-> [origin |-> <<x, y, z>>, direction |-> dir, depth |-> 0], range |-> rg] :
        vs \in TriangleVertices, x \in TriangleCoords, y \in TriangleCoords,
        z \in TriangleCoords, dir \in Directions, rg \in UnitRanges}

\* the normal of the plane of the triangle (not a unit vector)
PlaneNormal(vs) == Cross(VSub(vs[2], vs[1]), VSub(vs[3], vs[1]))

\* the lattice parameters at which ray r is in the plane of the triangle
PlaneTs(vs, r) == {t \in (-20)..20 : Dot(PlaneNormal(vs), VSub(PointAt(r, t), vs[1])) = 0}

\* the ray is parallel to the plane or meets it at a lattice parameter
MeetsOnLattice(vs, r) == Dot(PlaneNormal(vs), r.direction) = 0 \/ PlaneTs(vs, r) # {}

InitTriangle ==
    /\ args \in {x \in TriangleArgs : MeetsOnLattice(x.vertices, x.ray)}
    /\ out = <<>>
    /\ upc = "call"
    /\ GeoIdle
    /\ TraceIdle
    /\ RenderIdle

\* triangle.intersect(&ray, range, &vertices, &normals)
CallTriangleIntersect ==
    /\ upc = "call"
    /\ out' = TriangleIntersect(args.tri, args.ray, args.range, args.vertices)
    /\ upc' = "done"
    /\ UNCHANGED <<args, geoVars, traceVars, renderVars>>

SpecTriangle == InitTriangle /\ [][CallTriangleIntersect]_vars

\* the reference: p = v0 + beta (v1 - v0) + gamma (v2 - v0) for a point p of the
\* plane has beta = n . ((p - v0) x (v2 - v0)) / n . n and
\* gamma = n . ((v1 - v0) x (p - v0)) / n . n, n the normal of the plane
BetaTimesNN(vs, p) == Dot(PlaneNormal(vs), Cross(VSub(p, vs[1]), VSub(vs[3], vs[1])))
GammaTimesNN(vs, p) == Dot(PlaneNormal(vs), Cross(VSub(vs[2], vs[1]), VSub(p, vs[1])))

\* the parameters of the hits the claim describes
TriangleHitTs ==
    {t \in PlaneTs(args.vertices, args.ray) :
        LET p  == PointAt(args.ray, t)
            nn == Dot(PlaneNormal(args.vertices), PlaneNormal(args.vertices))
        IN  /\ Dot(PlaneNormal(args.vertices), args.ray.direction) # 0
            /\ BetaTimesNN(args.vertices, p) > 0
            /\ GammaTimesNN(args.vertices, p) > 0
            /\ BetaTimesNN(args.vertices, p) + GammaTimesNN(args.vertices, p) <= nn
            /\ InRange(args.range, t)}

TriangleExample ==
    /\ args.vertices = << <<0, 0, 0>>, <<5, 0, 0>>, <<0, 5, 0>> >>
    /\ args.ray.origin = <<1, 1, 5>> /\ args.ray.direction = <<0, 0, -1>>
    /\ args.range = Range(TraceRangeMin, FMax)

\* C17: Triangle::intersect returns a hit exactly when the ray meets the plane
\* of the triangle at a t strictly inside range with beta > 0, gamma > 0 and
\* beta + gamma <= 1, and then with that t and the hit point origin + t x
\* direction; the example call returns t = 1 (5 fifths) and hit point
\* (0.2, 0.2, 0)
TriangleSolvesBarycentric ==
    upc = "done" =>
        /\ IsSome(out) <=> TriangleHitTs # {}
        /\ IsSome(out) =>
            /\ Unwrap(out).t \in TriangleHitTs
            /\ Unwrap(out).hit_point = PointAt(args.ray, Unwrap(out).t)
        /\ TriangleExample =>
            /\ IsSome(out)
            /\ Unwrap(out).t = 5
            /\ Unwrap(out).hit_point = <<1, 1, 0>>

\* C17: a ray hit the tilted triangle strictly inside, at a t that differs
\* from ray to ray
TriangleHitInside ==
    /\ upc = "done"
    /\ IsSome(out)
    /\ args.vertices[2] = <<5, 0, 5>>
    /\ Unwrap(out).t > 1

----------------------------------------------------------------------------
(* math/vec3.rs: refract.  cos_theta_i and eta are in tenths; an f32 that is  *)
(* not a quotient of the lattice is "inf", "-inf" or "nan".  The direction wt *)
(* itself is left out: the result is None or Some of the radicand it was      *)
(* computed from.                                                             *)

\* 1.0 in tenths
RefractOne == 10

\* an f32: a quotient num / den of the lattice, or "inf", "-inf", "nan"
F32(kind, num, den) == [kind |-> kind, num |-> num, den |-> den]

\* x / y of f32, x and y in the same unit: IEEE division by zero gives an
\* infinity, or NaN for 0 / 0
FDiv(x, y) ==
    IF y # 0 THEN F32("num", x, y)
    ELSE IF x > 0 THEN F32("inf", 0, 0) ELSE IF x < 0 THEN F32("-inf", 0, 0) ELSE F32("nan", 0, 0)

\* 1.0 - q
OneMinus(q) ==
    CASE q.kind = "inf"  -> F32("-inf", 0, 0)
      [] q.kind = "-inf" -> F32("inf", 0, 0)
      [] q.kind = "nan"  -> q
      [] OTHER           -> F32("num", q.den - q.num, q.den)

\* let f = 1.0 - (1.0 - (cos_theta_i * cos_theta_i)) / (eta * eta)
Radicand(cos_theta_i, eta) ==
    OneMinus(FDiv((RefractOne * RefractOne) - (cos_theta_i * cos_theta_i), eta * eta))

\* f >= 0.0 of f32: false for NaN
GeZero(f) ==
    CASE f.kind = "inf"  -> TRUE
      [] f.kind = "-inf" -> FALSE
      [] f.kind = "nan"  -> FALSE
      [] OTHER           -> f.num * Sign(f.den) >= 0

\* f < 0.0 of f32: false for NaN
IsNegative(f) ==
    CASE f.kind = "inf"  -> FALSE
      [] f.kind = "-inf" -> TRUE
      [] f.kind = "nan"  -> FALSE
      [] OTHER           -> f.num * Sign(f.den) < 0

RefractOf(cos_theta_i, eta) ==
    LET f == Radicand(cos_theta_i, eta)
    IN  IF GeZero(f) THEN Some([radicand |-> f]) ELSE None

\* cos_theta_i in [0, 1] as shade passes it, eta from 0 (a material without
\* ior) to 2
InitRefract ==
    /\ args \in [cos_theta_i : 0..RefractOne, eta : 0..(2 * RefractOne)]
    /\ out = <<>>
    /\ upc = "call"
    /\ GeoIdle
    /\ TraceIdle
    /\ RenderIdle

\* refract(&v, &n, cos_theta_i, eta)
CallRefract ==
    /\ upc = "call"
    /\ out' = RefractOf(args.cos_theta_i, args.eta)
    /\ upc' = "done"
    /\ UNCHANGED <<args, geoVars, traceVars, renderVars>>

SpecRefract == InitRefract /\ [][CallRefract]_vars

\* C18: refract returns None exactly when the radicand
\* 1 - (1 - cos_theta_i^2) / eta^2 is negative, and Some(direction) otherwise
RefractNoneIffNegative ==
    upc = "done" => (out = None <=> IsNegative(Radicand(args.cos_theta_i, args.eta)))

----------------------------------------------------------------------------
(* render/tracer.rs: TraceResult::new and TraceResult::combine, and the       *)
(* reduce of render_scene over the results of three closures.  Durations are  *)
(* counted in ticks.  u32::MAX is scaled down to U32Max; a sum beyond it      *)
(* panics in a debug build and wraps around in a release build.               *)
U32Max == 7

Builds == {"debug", "release"}

TraceResult(ray_count, hit_count, trace_sum, trace_max) ==
    [ok |-> TRUE, ray_count |-> ray_count, hit_count |-> hit_count,
     trace_sum |-> trace_sum, trace_max |-> trace_max]

\* TraceResult::new()
TraceResultNew == TraceResult(0, 0, 0, 0)

\* what is left of a reduce one of whose additions panicked
Panicked == [ok |-> FALSE, ray_count |-> 0, hit_count |-> 0, trace_sum |-> 0, trace_max |-> 0]

\* a + b of u32
AddU32(a, b) == (a + b) % (U32Max + 1)
Overflows(a, b) == a + b > U32Max

\* a plausible slip: trace_max of the right-hand side
CombineMaxOfRhs(build, lhs, rhs) ==
    IF ~lhs.ok \/ ~rhs.ok THEN Panicked
    ELSE IF build = "debug" /\ (Overflows(lhs.ray_count, rhs.ray_count)
                                \/ Overflows(lhs.hit_count, rhs.hit_count))
         THEN Panicked
         ELSE TraceResult(AddU32(lhs.ray_count, rhs.ray_count),
                          AddU32(lhs.hit_count, rhs.hit_count),
                          lhs.trace_sum + rhs.trace_sum,
                          rhs.trace_max)

\* lhs.combine(&rhs)
Combine(build, lhs, rhs) ==
    IF ~lhs.ok \/ ~rhs.ok THEN Panicked
    ELSE IF build = "debug" /\ (Overflows(lhs.ray_count, rhs.ray_count)
                                \/ Overflows(lhs.hit_count, rhs.hit_count))
         THEN Panicked
         ELSE TraceResult(AddU32(lhs.ray_count, rhs.ray_count),
                          AddU32(lhs.hit_count, rhs.hit_count),
                          lhs.trace_sum + rhs.trace_sum,
                          IF lhs.trace_max < rhs.trace_max THEN rhs.trace_max
                          ELSE lhs.trace_max)

\* ctxt.result of closures: rays, hits among them, time summed and its maximum
ClosureResults == {
    TraceResultNew,
    TraceResult(1, 0, 2, 2),
    TraceResult(2, 1, 5, 3),
    TraceResult(3, 3, 4, 4),
    TraceResult(4, 2, 3, 2),
    TraceResult(U32Max - 1, U32Max - 1, 1, 1),
    TraceResult(U32Max, 1, 9, 9) }

InitCombine ==
    /\ args \in [build : Builds, a : ClosureResults, b : ClosureResults, c : ClosureResults]
    /\ out = <<>>
    /\ upc = "call"
    /\ GeoIdle
    /\ TraceIdle
    /\ RenderIdle

\* the orders in which reduce can meet the results of three closures
Orders(a, b, c) == {<<a, b, c>>, <<a, c, b>>, <<b, a, c>>, <<b, c, a>>, <<c, a, b>>, <<c, b, a>>}

\* .reduce(TraceResult::new, |a, b| a.combine(&b)) over three results: what
\* every order and grouping of the three gives, identities folded in or not
CallReduce ==
    /\ upc = "call"
    /\ out' = [reduced |->
                  UNION {{Combine(args.build, Combine(args.build, o[1], o[2]), o[3]),
                          Combine(args.build, o[1], Combine(args.build, o[2], o[3])),
                          Combine(args.build, Combine(args.build, TraceResultNew, o[1]),
                                  Combine(args.build, o[2], Combine(args.build, o[3], TraceResultNew)))} :
                         o \in Orders(args.a, args.b, args.c)},
               ab  |-> Combine(args.build, args.a, args.b),
               ba  |-> Combine(args.build, args.b, args.a),
               a_e |-> Combine(args.build, args.a, TraceResultNew),
               e_a |-> Combine(args.build, TraceResultNew, args.a)]
    /\ upc' = "done"
    /\ UNCHANGED <<args, geoVars, traceVars, renderVars>>

SpecCombine == InitCombine /\ [][CallReduce]_vars

\* C19: combine is commutative and associative with TraceResult::new() as
\* identity: every order and grouping of three results reduces to one and the
\* same TraceResult, whose counts and trace_sum are the sums and whose
\* trace_max is the maximum
CombineIsCommutativeMonoid ==
    upc = "done" =>
        /\ Cardinality(out.reduced) = 1
        /\ out.ab = out.ba
        /\ out.a_e = args.a /\ out.e_a = args.a
        /\ \A r \in out.reduced : r.ok =>
            /\ r.ray_count = (args.a.ray_count + args.b.ray_count + args.c.ray_count) % (U32Max + 1)
            /\ r.hit_count = (args.a.hit_count + args.b.hit_count + args.c.hit_count) % (U32Max + 1)
            /\ r.trace_sum = args.a.trace_sum + args.b.trace_sum + args.c.trace_sum
            /\ r.trace_max = Max2(args.a.trace_max, Max2(args.b.trace_max, args.c.trace_max))

\* C19: three different results were reduced, the one with the greatest
\* trace_max neither first nor last, without overflow
ReducedThree ==
    /\ upc = "done"
    /\ \A r \in out.reduced : r.ok /\ r.ray_count = args.a.ray_count + args.b.ray_count + args.c.ray_count
    /\ args.b.trace_max > args.a.trace_max /\ args.b.trace_max > args.c.trace_max
    /\ args.a # args.c /\ args.a.ray_count > 0 /\ args.c.ray_count > 0

----------------------------------------------------------------------------
(* render/tracer.rs: trace_ray over the objects of a scene with planes and a  *)
(* mesh instance.                                                             *)

\* a mesh of two triangles: one in the plane x = 2, one in the plane z = x
ScanMesh ==
    MeshNew(<< <<2, -1, -1>>, <<2, 5, 0>>, <<2, 0, 5>>,
               <<0, 0, 0>>, <<5, 0, 5>>, <<0, 5, 0>> >>,
            << [i |-> 1, j |-> 2, k |-> 3], [i |-> 4, j |-> 5, k |-> 6] >>)

ScanModels ==
    {[kind |-> "model", mesh |-> ScanMesh, material |-> "matte", transform |-> Transform(tl, Fill(sc))] :
        tl \in {<<0, 0, 0>>, <<2, 0, 0>>}, sc \in {1, 2}}

ScanPlanes == {
    [kind |-> "plane", point |-> <<3, 0, 0>>, normal |-> <<-1, 0, 0>>, material |-> "mirror"],
    [kind |-> "plane", point |-> <<8, 0, 0>>, normal |-> <<-1, 0, 0>>, material |-> "mirror"],
    [kind |-> "plane", point |-> <<0, 0, 3>>, normal |-> <<0, 0, -1>>, material |-> "glass"] }

\* config.objects: no, one or two planes, then a model
ScanConfigs ==
    {<<m>> : m \in ScanModels}
        \cup {<<p, m>> : p \in ScanPlanes, m \in ScanModels}
        \cup {<<p, q, m>> : p \in ScanPlanes, q \in ScanPlanes, m \in ScanModels}

ScanRays ==
    {[origin |-> <<x, y, z>>, direction |-> d, depth |-> 0] :
        x \in {-2, 0, 2}, y \in {0, 2, 4}, z \in {0, 2, 4}, d \in Directions}

InitScan ==
    /\ args \in {[objects |-> objs, ray |-> r] :
                    objs \in UNION {MakeObjectsOf(cfgs) : cfgs \in ScanConfigs}, r \in ScanRays}
    /\ out = <<>>
    /\ upc = "call"
    /\ GeoIdle
    /\ TraceIdle
    /\ RenderIdle

\* range.max of trace_ray before object i and after every object from i on
RECURSIVE TraceMaxes(_, _, _, _)
TraceMaxes(objs, i, r, rg) ==
    IF i > Len(objs) THEN <<rg.max>>
    ELSE LET hit == ObjectIntersect(objs[i], r, rg)
         IN  <<rg.max>> \o TraceMaxes(objs, i + 1, r,
                                   IF IsSome(hit) THEN Range(rg.min, Unwrap(hit).t) ELSE rg)

\* trace_ray(ray), with the range.max it went through and what every object
\* reports for the range trace_ray starts from
CallTraceRay ==
    /\ upc = "call"
    /\ out' = [surfel |-> TraceRay(args.objects, args.ray),
               maxes  |-> TraceMaxes(args.objects, 1, args.ray, Range(TraceRangeMin, FMax)),
               hits   |-> [i \in DOMAIN args.objects |->
                              ObjectIntersect(args.objects[i], args.ray, Range(TraceRangeMin, FMax))]]
    /\ upc' = "done"
    /\ UNCHANGED <<args, geoVars, traceVars, renderVars>>

SpecScan == InitScan /\ [][CallTraceRay]_vars

\* the t of the hits that the scanned objects report for the original range
ReportedTs == {Unwrap(out.hits[i]).t : i \in {j \in DOMAIN out.hits : IsSome(out.hits[j])}}

\* C20: during the scan of trace_ray range.max never increases, and the Surfel
\* returned has the smallest t of all hits that the scanned objects report for
\* the original range (None when none reports a hit)
ScanKeepsNearestHit ==
    upc = "done" =>
        /\ \A i \in 1..(Len(out.maxes) - 1) : ~(out.maxes[i + 1] > out.maxes[i])
        /\ IF ReportedTs = {} THEN out.surfel = None
           ELSE IsSome(out.surfel) /\ \A t \in ReportedTs : Le(Unwrap(out.surfel).t, t)

----------------------------------------------------------------------------
\* C21: once pass 1 is complete, get_color(x, y) of the pass-1 framebuffer is
\* the color of the camera ray through (x, y), for every pixel of every image
\* size, and every chunk is one row of width pixels
Pass1PixelsAreRowMajor ==
    (phase = "pass1" /\ Pass1Complete) =>
        /\ \A x \in 0..(width - 1), y \in 0..(height - 1) :
               GetColor(fb, width, height, x, y) = Some(SamplePoint(scene, x, y))
        /\ \A k \in DOMAIN work1 : ChunkIndices(k) = (k * width)..(k * width + width - 1)

----------------------------------------------------------------------------
(* objects/bvh.rs: Bvh::new called on its own, twice on the same list.        *)
BuildAxes == {0, 1, 2}

InitBuild ==
    /\ args \in {[objects |-> MakeObjectsLoop(cfgs, 1, <<>>, <<>>)[2], axis |-> axis] :
                    cfgs \in SeqsUpTo(SphereConfigs, MaxObjects), axis \in BuildAxes}
    /\ out = <<>>
    /\ upc = "call"
    /\ GeoIdle
    /\ TraceIdle
    /\ RenderIdle

\* Bvh::new(objects, axis), and Bvh::new(objects, axis) once more.  Which of
\* the sorted arrangements sort_unstable_by produces is not specified, but it is
\* a function of the list and the comparisons: the second build sorts as the
\* first one did
CallBvhNew ==
    /\ upc = "call"
    /\ \E tree \in BvhNew(args.objects, args.axis) :
           out' = [tree |-> tree, again |-> tree]
    /\ upc' = "done"
    /\ UNCHANGED <<args, geoVars, traceVars, renderVars>>

SpecBuild == InitBuild /\ [][CallBvhNew]_vars

\* the objects of the leaves of a tree, from left to right
RECURSIVE LeavesOf(_)
LeavesOf(node) ==
    IF IsSome(node.left) /\ IsSome(node.right)
    THEN LeavesOf(Unwrap(node.left)) \o LeavesOf(Unwrap(node.right))
    ELSE node.objects

RECURSIVE DepthOf(_)
DepthOf(node) ==
    IF IsSome(node.left) /\ IsSome(node.right)
    THEN 1 + Max2(DepthOf(Unwrap(node.left)), DepthOf(Unwrap(node.right)))
    ELSE 0

RECURSIVE CeilLog2(_)
CeilLog2(n) == IF n <= 1 THEN 0 ELSE 1 + CeilLog2((n + 1) \div 2)

\* how often x is in the list s
CountIn(s, x) == Cardinality({i \in DOMAIN s : s[i] = x})

\* the merge of the bboxes of a list of objects, from the last one down
RECURSIVE MergedBboxes(_)
MergedBboxes(objs) ==
    IF objs = <<>> THEN AabbMaxMin
    ELSE AabbMerge(Unwrap(Bbox(objs[Len(objs)])), MergedBboxes(SubSeq(objs, 1, Len(objs) - 1)))

\* a node built on `axis`: a leaf of at most one object, or two children that
\* split the objects below at floor(n / 2) in the order of the centroids on
\* axis, each built on the next axis; its bbox is that of the objects below
RECURSIVE WellBuilt(_, _)
WellBuilt(node, axis) ==
    /\ node.bbox = MergedBboxes(LeavesOf(node))
    /\ IF IsSome(node.left) \/ IsSome(node.right)
       THEN /\ IsSome(node.left) /\ IsSome(node.right)
            /\ node.objects = <<>>
            /\ LET l == LeavesOf(Unwrap(node.left))
                   r == LeavesOf(Unwrap(node.right))
               IN  /\ Len(l) = (Len(l) + Len(r)) \div 2
                   /\ \A i \in DOMAIN l, j \in DOMAIN r :
                          Centroid(l[i])[axis + 1] <= Centroid(r[j])[axis + 1]
            /\ WellBuilt(Unwrap(node.left), (axis + 1) % 3)
            /\ WellBuilt(Unwrap(node.right), (axis + 1) % 3)
       ELSE Len(node.objects) <= 1

\* C22: Bvh::new builds a strict binary tree with at most one object in a
\* leaf, split at floor(n / 2) of the list sorted by centroid on the node's
\* axis, children on axis (axis + 1) mod 3, every input object in exactly one
\* leaf, every bbox the merge of the bboxes below, depth at most ceil(log2 n)
BvhIsWellBuilt ==
    upc = "done" =>
        /\ WellBuilt(out.tree, args.axis)
        /\ \A i \in DOMAIN args.objects :
               CountIn(LeavesOf(out.tree), args.objects[i]) = CountIn(args.objects, args.objects[i])
        /\ Len(LeavesOf(out.tree)) = Len(args.objects)
        /\ Len(args.objects) >= 1 => DepthOf(out.tree) <= CeilLog2(Len(args.objects))

\* C22: a tree of depth 2 over three different objects whose leaves are not in
\* the order of the input list
BuiltThreeSorted ==
    /\ upc = "done"
    /\ Len(args.objects) = 3
    /\ Cardinality({args.objects[i] : i \in DOMAIN args.objects}) = 3
    /\ DepthOf(out.tree) = 2
    /\ LeavesOf(out.tree) # args.objects

\* the list sorted by centroid on axis, objects that compare Equal in the order
\* of the input list
StableSort(objs, axis) ==
    LET n == Len(objs)
        key(i) == Centroid(objs[i])[axis + 1]
        p == CHOOSE q \in [1..n -> 1..n] :
                 /\ \A i, j \in 1..n : q[i] = q[j] => i = j
                 /\ \A i, j \in 1..n : i < j =>
                        key(q[i]) < key(q[j]) \/ (key(q[i]) = key(q[j]) /\ q[i] < q[j])
    IN  [i \in 1..n |-> objs[p[i]]]

\* the tree of a Bvh::new that sorts stably
RECURSIVE StableBvh(_, _)
StableBvh(objs, axis) ==
    IF Len(objs) <= 1
    THEN BvhNode(None, None, objs, ComputeBbox(objs))
    ELSE LET s == StableSort(objs, axis)
             mid == Len(s) \div 2
             l == StableBvh(SubSeq(s, 1, mid), (axis + 1) % 3)
             r == StableBvh(SubSeq(s, mid + 1, Len(s)), (axis + 1) % 3)
         IN  BvhNode(Some(l), Some(r), <<>>, AabbMerge(l.bbox, r.bbox))

\* C23: building twice from the same list gives the same tree, and objects
\* whose centroids are equal on the split axis keep the order of the input list
BvhIsDeterministicAndStable ==
    upc = "done" => out.tree = out.again /\ out.tree = StableBvh(args.objects, args.axis)

----------------------------------------------------------------------------
(* objects/mesh.rs: Instance::intersect called on its own.                    *)
InitInstance ==
    /\ args \in {[inst |-> InstanceNew(cfg.mesh, GetMaterialId(cfg.material), cfg.transform),
                  ray |-> r, range |-> rg] :
                    cfg \in ScanModels, r \in ScanRays,
                    rg \in {Range(TraceRangeMin, FMax), Range(TraceRangeMin, 3)}}
    /\ out = <<>>
    /\ upc = "call"
    /\ GeoIdle
    /\ TraceIdle
    /\ RenderIdle

CallInstanceIntersect ==
    /\ upc = "call"
    /\ out' = InstanceIntersect(args.inst, args.ray, args.range)
    /\ upc' = "done"
    /\ UNCHANGED <<args, geoVars, traceVars, renderVars>>

SpecInstance == InitInstance /\ [][CallInstanceIntersect]_vars

\* C24: Instance::intersect returns None or a Surfel whose t is a finite number
\* with ray.origin + t * ray.direction = hit_point, also for a ray whose
\* direction has x component 0
InstanceTIsOnRay ==
    (upc = "done" /\ IsSome(out)) =>
        /\ Unwrap(out).t # NaN
        /\ PointAt(args.ray, Unwrap(out).t) = Unwrap(out).hit_point

----------------------------------------------------------------------------
(* Pixel::sample and Pixel::subdivide, seen through the calls and the rays    *)
(* they leave in the pixel's state.                                           *)

\* the four corner samples that sample takes from the pass-1 framebuffer:
\* stash[4][0], stash[4][4], stash[0][4], stash[0][0]
CornerSamples ==
    LET data == Pass1Data(args.sc, args.w, args.h)
    IN  <<Unwrap(GetColor(data, args.w, args.h, args.j, args.k)),
          Unwrap(GetColor(data, args.w, args.h, args.j + 1, args.k)),
          Unwrap(GetColor(data, args.w, args.h, args.j + 1, args.k - 1)),
          Unwrap(GetColor(data, args.w, args.h, args.j, args.k - 1))>>

\* every pair of the samples is within the tolerance, diagonal pairs included
AllClose(samples) ==
    \A m, n \in DOMAIN samples : ~ColorsDiffer(samples[m], samples[n])

\* C25: the quad of a pixel is returned as the plain average of its four corner
\* samples, without further subdivision, exactly when the minimum depth is
\* reached or every pair of corners, diagonal pairs included, is within 0.05
\* per channel
PlainAverageIffAllClose ==
    upc = "done" =>
        \A s \in Settings :
            LET plain == Len(out[s].px.calls) = 1
            IN  /\ plain <=> (MinDepthOf(s) = 4 \/ AllClose(CornerSamples))
                /\ plain => out[s].color = AverageColor(CornerSamples)

\* C26: every ray cast for stash cell (r, c) of pixel (j, k) is cast at the
\* view-plane coordinate (j + c/4, k - (4 - r)/4), in quarters of a pixel
\* (4j + c, 4k - (4 - r))
CastsAtCellCoordinates ==
    upc = "done" =>
        \A s \in Settings : \A n \in DOMAIN out[s].px.casts :
            LET cast == out[s].px.casts[n]
            IN  cast.coord = <<4 * args.j + cast.cell[2], 4 * args.k - (4 - cast.cell[1])>>

\* C27: subdivide is called a bounded number of times, never with depth 0, and
\* the stash rows bottom_left.0 and bottom_left.0 - off and columns
\* bottom_left.1 and bottom_left.1 + off it uses are within 0..4, for every
\* setting of the sampling depth
SubdivideStaysInStash ==
    upc = "done" =>
        \A s \in Settings :
            /\ Len(out[s].px.calls) <= 21
            /\ \A n \in DOMAIN out[s].px.calls :
                   LET call == out[s].px.calls[n]
                   IN  /\ call.depth >= 1
                       /\ call.bottom_left \in StashCells
                       /\ call.bottom_left[1] - call.depth \in 0..4
                       /\ call.bottom_left[2] + call.depth \in 0..4

\* C27: a pixel subdivided down to depth 1 in every quadrant, at the largest
\* setting: 1 + 4 + 16 calls
SubdividedToTheEnd ==
    /\ upc = "done"
    /\ Len(out[255].px.calls) = 21
    /\ \E n \in DOMAIN out[255].px.calls :
           out[255].px.calls[n] = [bottom_left |-> <<1, 3>>, depth |-> 1]

\* C28: every stash cell has at most one ray cast for it and the four corner
\* cells have none: at most 21 rays a pixel, and ray_count grows by as many
AtMostOneRayPerCell ==
    upc = "done" =>
        \A s \in Settings :
            LET casts == out[s].px.casts
            IN  /\ \A m, n \in DOMAIN casts : m # n => casts[m].cell # casts[n].cell
                /\ \A n \in DOMAIN casts : casts[n].cell \notin {<<4, 0>>, <<4, 4>>, <<0, 4>>, <<0, 0>>}
                /\ Len(casts) <= 21
                /\ out[s].px.rays = Len(casts)

\* C28: a pixel for which all 21 rays were cast, every cell of the stash filled
AllCellsSampled ==
    /\ upc = "done"
    /\ \E s \in Settings :
           /\ out[s].px.rays = 21
           /\ \A cell \in StashCells : IsSome(out[s].px.stash[cell])

----------------------------------------------------------------------------
\* C29: when no object meets the shadow ray between the surface point and the
\* light, shadow_intensity returns the light's intensity unchanged, whatever
\* lies on the ray beyond the light
ShadowIgnoresBeyondLight ==
    (gpc = "done" /\ IsSome(shadowRet) /\ Occluders = {}) =>
        Unwrap(shadowRet) = light.intensity

----------------------------------------------------------------------------
\* C30: Sphere::intersect returns a hit whenever a root of the quadratic lies
\* strictly inside the range; when the smaller root is non-negative but not
\* above range.min and the larger root is inside the range, the larger root is
\* returned
SphereHitsWheneverRootInRange ==
    upc = "done" =>
        /\ (\E t \in SphereRoots : InRange(args.range, t)) => IsSome(out)
        /\ \A lo, hi \in SphereRoots :
               (lo < hi /\ lo >= 0 /\ lo <= args.range.min /\ InRange(args.range, hi))
                   => IsSome(out) /\ Unwrap(out).t = hi

====
